---- MODULE Spec2Model ----
(***************************************************************************)
(* State-machine model of the GrimDealz ingestion pipeline:                *)
(*   scrapers/db.py          upsert_results, _upsert_one                   *)
(*   scrapers/run_all.py     run_scraper, main                             *)
(*   scrapers/base_store.py  BaseStore.get (tenacity retry policy)         *)
(*   scrapers/stores/*.py    semaphore-bounded product fetch pools         *)
(* Money is counted in cents, discount_pct in hundredths of a percent.     *)
(***************************************************************************)
EXTENDS Integers, Sequences, FiniteSets, TLC

(***************************************************************************)
(* Bounds of the model                                                     *)
(***************************************************************************)
\* longest results list handed to one upsert_results call
MaxBatch == 3

(***************************************************************************)
(* The database content the ingestion engine only reads                    *)
(***************************************************************************)
StockStatus == {"in_stock", "out_of_stock", "backorder", "pre_order", "limited"}

\* rows of the products table: two active products (one without a retail
\* price), one deactivated product; item number "99-99" has no row at all
Products ==
  { [id |-> "p1", gw_item_number |-> "48-75", gw_rrp_usd |-> 5000, is_active |-> TRUE],
    [id |-> "p2", gw_item_number |-> "43-06", gw_rrp_usd |-> 0,    is_active |-> TRUE],
    [id |-> "p3", gw_item_number |-> "01-21", gw_rrp_usd |-> 3300, is_active |-> FALSE] }

\* rows of the stores table: two active stores and a deactivated one, whose
\* scraper is still among SCRAPERS
Stores ==
  { [id |-> "s1", slug |-> "miniature-market", is_active |-> TRUE],
    [id |-> "s2", slug |-> "gamenerdz",        is_active |-> TRUE],
    [id |-> "s3", slug |-> "frontline-gaming",    is_active |-> FALSE] }

Slugs == {s.slug : s \in Stores}

\* the slugs upsert_results is called with: an active and a deactivated store
CalledSlugs == {"miniature-market", "frontline-gaming"}

(***************************************************************************)
(* PriceResult values a scraper can hand over (already validated by        *)
(* __post_init__: price >= 0, item number not blank)                       *)
(***************************************************************************)
ObsKeys     == {"48-75", "43-06", "01-21", "99-99"}
ObsPrices   == {4250, 5000}
ObsStatuses == {"in_stock", "out_of_stock"}

\* the optional fields of a PriceResult ("None" when left out): a reduced
\* item is on another page, an item out of stock shows no SKU, and only
\* reduced items come with an affiliate link
StoreProductUrl(key, price) ==
  <<IF price = 4250 THEN "https://store/sale/" ELSE "https://store/p/", key>>

StoreSku(key, status) ==
  IF status = "out_of_stock" THEN "None" ELSE <<"sku", key>>

AffiliateUrl(key, price) ==
  IF price = 4250 THEN <<"https://aff/", key>> ELSE "None"

\* every price and status is offered for the product with a retail price;
\* the other item numbers come with the list price, in stock
PriceResult ==
  {[gw_item_number |-> k, current_price |-> p, stock_status |-> st,
    store_product_url |-> StoreProductUrl(k, p), store_sku |-> StoreSku(k, st),
    affiliate_url |-> AffiliateUrl(k, p)] :
     <<k, p, st>> \in
       {t \in ObsKeys \X ObsPrices \X ObsStatuses :
          \/ t[1] = "48-75" /\ (t[2] = 4250 => t[3] = "in_stock")
          \/ t[2] = 5000 /\ t[3] = "in_stock"}}

\* mutation: only "in_stock" counts as purchasable
InStockOnly(status) == status = "in_stock"

\* PriceResult.in_stock
InStock(status) == status \in {"in_stock", "limited"}

(***************************************************************************)
(* UpsertStats                                                             *)
(***************************************************************************)
NewStats(slug, n) ==
  [store_slug |-> slug, total_scraped |-> n, matched |-> 0, upserted |-> 0,
   price_changes |-> 0, unmatched |-> <<>>, errors |-> <<>>]

(***************************************************************************)
(* Statements of _upsert_one, in execution order, and the ways one of them *)
(* can raise.  A ServerError is an error reported by PostgreSQL: it leaves *)
(* the connection's transaction aborted (INERROR), and every later         *)
(* statement on the connection raises InFailedSqlTransaction until a       *)
(* rollback, which upsert_results never issues.  A ClientError is raised   *)
(* by the driver before anything is sent (a parameter it cannot adapt);    *)
(* only the listing upsert takes scraper-provided parameters of free type. *)
(***************************************************************************)
StmtLookup  == "select_product"
StmtUpsert  == "upsert_listing"
StmtReadBack == "select_listing"
StmtHistory == "insert_price_history"
StmtCommit  == "commit"

NoFault == [stmt |-> "none", kind |-> "none"]

Faults ==
  {[stmt |-> s, kind |-> "ServerError"] :
      s \in {StmtLookup, StmtUpsert, StmtReadBack, StmtHistory, StmtCommit}}
  \cup {[stmt |-> StmtUpsert, kind |-> "ClientError"]}

\* mutation: an error reported by PostgreSQL leaves the transaction usable
TxAfterErrorStaysOpen(kind, tx) == tx

\* transaction status after a statement raised
TxAfterError(kind, tx) == IF kind = "ServerError" THEN "INERROR" ELSE tx

VARIABLES
  listings,            \* listings rows as the open connection sees them
  price_history,       \* price_history rows (in insertion order), same view
  committed_listings,  \* durable listings rows
  committed_history,   \* durable price_history rows
  tx_status,           \* "IDLE" | "INTRANS" | "INERROR" of the connection
  pc,                  \* "idle" | "loop" | "returned" | "raised"
  store_id,            \* store row id resolved for the running call
  results,             \* the items of the results argument consumed so far
  stats,               \* the UpsertStats of the running call
  injected,            \* positions of results where an injected fault fired
  store_slug           \* the store this pipeline ingests for

dbVars == <<listings, price_history, committed_listings, committed_history,
            tx_status, pc, store_id, results, stats, injected,
            store_slug>>

VARIABLES
  task,             \* run_scraper task of each scraper class: its position
  all_stats,        \* what each run_scraper task returned (or raised)
  main_pc,          \* "gather" | "webhook" | "totals" | "done" | "crashed"
  changed_stores,   \* slugs collected for the revalidation webhook
  failed,           \* number of scrapers that returned None
  webhook,          \* "not_called" | "skipped" | "ok" | "failed"
  secret_set,       \* REVALIDATE_SECRET is configured
  total_matched,    \* totals logged by main
  total_changes,
  exit_code         \* what main returned; -1 while it has not

runVars == <<task, all_stats, main_pc, changed_stores, failed, webhook,
             secret_set, total_matched, total_changes, exit_code>>

VARIABLES
  scraper,      \* the store scraper whose scrape() runs
  phase,        \* "collect" | "products" | "returned" | "raised"
  coll,         \* how many URL-collecting coroutines are in each position
  mm_step,      \* Miniature Market: which of its two sitemap requests is next
  found_urls,   \* Discount Games Inc: some category page listed a product
  cat_sem,      \* value of the category semaphore (Discount Games Inc)
  fetch,        \* how many fetch_one tasks are in each position
  semaphore     \* value of the product-page semaphore

poolVars == <<scraper, phase, coll, mm_step, found_urls, cat_sem, fetch, semaphore>>

VARIABLES
  get_pc,          \* "idle" | "attempt" | "waiting" | "returned" | "raised"
  client_open,     \* get is called inside the scraper's "async with" block
  attempt_number,  \* tenacity's attempt counter of the running call
  outcomes,        \* how each attempt made so far ended
  waits,           \* the sleeps tenacity took between the attempts
  raised_exc,      \* the exception that left get ("none" when none did)
  returned_attempt \* the attempt whose response get returned (0 when none)

getVars == <<get_pc, client_open, attempt_number, outcomes, waits, raised_exc,
             returned_attempt>>

VARIABLES
  raw_key,            \* the string raw_input was written from, before casing and padding
  raw_input,          \* the argument of normalize_stock_status
  normalized,         \* what it returned ("pending" before the call)
  pr_gw_item_number,  \* arguments of a PriceResult construction
  pr_current_price,
  pr_outcome          \* "pending" | "constructed" | the ValueError raised

normVars == <<raw_key, raw_input, normalized>>
prVars   == <<pr_gw_item_number, pr_current_price, pr_outcome>>

VARIABLES
  arrival,     \* a batch with distinct item numbers in two arrival orders
  ingested,    \* what upsert_results left and returned for each order
  db_listings, \* durable listings rows under two concurrent calls
  db_history,  \* durable price_history rows under two concurrent calls
  conn         \* per store: the connection and the call running on it

ordVars  == <<arrival, ingested>>
concVars == <<db_listings, db_history, conn>>
fnVars   == <<normVars, prVars, ordVars, concVars>>

vars == <<dbVars, runVars, poolVars, getVars, fnVars>>

(***************************************************************************)
(* db.py: helpers of _upsert_one                                           *)
(***************************************************************************)
\* mutation: the lookup forgets "AND is_active = TRUE"
LookupProductAnyActivity(key) ==
  {p \in Products : p.gw_item_number = key}

\* SELECT id, gw_rrp_usd FROM products WHERE gw_item_number = %s AND is_active
LookupProduct(key) ==
  {p \in Products : p.gw_item_number = key /\ p.is_active}

\* mutation: the store lookup forgets "AND is_active = TRUE"
ResolveStoreAnyActivity(slug) ==
  {s \in Stores : s.slug = slug}

\* SELECT id FROM stores WHERE slug = %s AND is_active = TRUE
ResolveStore(slug) ==
  {s \in Stores : s.slug = slug /\ s.is_active}

\* n / d rounded to the nearest integer, ties to even (Decimal.quantize)
RoundHalfEven(n, d) ==
  LET q == n \div d
      r == n % d
  IN  IF 2 * r < d THEN q
      ELSE IF 2 * r > d THEN q + 1
      ELSE IF q % 2 = 0 THEN q ELSE q + 1

\* mutation: the quotient is cut off after two decimal places
DiscountPctTruncated(gw_rrp_usd, current_price) ==
  IF gw_rrp_usd > 0
    THEN ((gw_rrp_usd - current_price) * 10000) \div gw_rrp_usd
    ELSE 0

\* discount_pct in hundredths of a percent
DiscountPct(gw_rrp_usd, current_price) ==
  IF gw_rrp_usd > 0
    THEN RoundHalfEven((gw_rrp_usd - current_price) * 10000, gw_rrp_usd)
    ELSE 0

ListingOf(L, product_id, sid) ==
  {l \in L : l.product_id = product_id /\ l.store_id = sid}

\* gen_random_uuid(): an id no live or durable row carries
FreshId(L, CL) ==
  CHOOSE n \in 1..(Cardinality(L \cup CL) + 1) :
    \A l \in L \cup CL : l.id # n

\* mutation: a conflicting row is deleted and a new row inserted in its place
UpsertListingReplace(L, CL, product_id, sid, r, current_price, discount_pct, stock_status) ==
  {l \in L : ~(l.product_id = product_id /\ l.store_id = sid)}
  \cup {[id |-> FreshId(L, CL), product_id |-> product_id, store_id |-> sid,
         store_product_url |-> r.store_product_url,
         store_sku |-> r.store_sku,
         current_price |-> current_price, discount_pct |-> discount_pct,
         in_stock |-> InStock(stock_status), stock_status |-> stock_status,
         affiliate_url |-> r.affiliate_url]}

\* mutation: the conflict target is the product alone
UpsertListingOnProduct(L, CL, product_id, sid, r, current_price, discount_pct, stock_status) ==
  IF {l \in L : l.product_id = product_id} = {}
    THEN L \cup {[id |-> FreshId(L, CL), product_id |-> product_id, store_id |-> sid,
                  store_product_url |-> r.store_product_url,
                  store_sku |-> r.store_sku,
                  current_price |-> current_price, discount_pct |-> discount_pct,
                  in_stock |-> InStock(stock_status), stock_status |-> stock_status,
                  affiliate_url |-> r.affiliate_url]}
    ELSE {IF l.product_id = product_id
            THEN [l EXCEPT !.store_product_url = r.store_product_url,
                           !.store_sku = r.store_sku,
                           !.current_price = current_price,
                           !.discount_pct = discount_pct,
                           !.in_stock = InStock(stock_status),
                           !.stock_status = stock_status,
                           !.affiliate_url = r.affiliate_url]
            ELSE l : l \in L}

\* INSERT INTO listings ... ON CONFLICT (product_id, store_id) DO UPDATE SET ...
UpsertListing(L, CL, product_id, sid, r, current_price, discount_pct, stock_status) ==
  IF ListingOf(L, product_id, sid) = {}
    THEN L \cup {[id |-> FreshId(L, CL), product_id |-> product_id, store_id |-> sid,
                  store_product_url |-> r.store_product_url,
                  store_sku |-> r.store_sku,
                  current_price |-> current_price, discount_pct |-> discount_pct,
                  in_stock |-> InStock(stock_status), stock_status |-> stock_status,
                  affiliate_url |-> r.affiliate_url]}
    ELSE {IF l.product_id = product_id /\ l.store_id = sid
            THEN [l EXCEPT !.store_product_url = r.store_product_url,
                           !.store_sku = r.store_sku,
                           !.current_price = current_price,
                           !.discount_pct = discount_pct,
                           !.in_stock = InStock(stock_status),
                           !.stock_status = stock_status,
                           !.affiliate_url = r.affiliate_url]
            ELSE l : l \in L}

\* step 5 of _upsert_one: the listing row read after the upsert statement ran
ReadBack(L_after, L_before, product_id, sid) ==
  ListingOf(L_after, product_id, sid)

\* mutation: every read-back counts as a change
PriceChangedAlways(existing, current_price, stock_status) == TRUE

\* price_changed as _upsert_one computes it from the row it read
PriceChanged(existing, current_price, stock_status) ==
  IF existing = {} THEN TRUE
  ELSE \E e \in existing :
         e.current_price # current_price \/ e.stock_status # stock_status

\* listing_id as _upsert_one computes it; 0 stands for the empty string
ListingId(existing) ==
  IF existing = {} THEN 0 ELSE (CHOOSE e \in existing : TRUE).id

HistoryRow(listing_id, current_price, discount_pct, in_stock) ==
  [listing_id |-> listing_id, price |-> current_price,
   discount_pct |-> discount_pct, in_stock |-> in_stock]

(***************************************************************************)
(* db.py: _upsert_one on one PriceResult r, with fault f injected.         *)
(* db is the connection and stats state before the call; the result is    *)
(* that state after it plus exc, the exception _upsert_one raised ("none"  *)
(* when it returned), and fired, whether the injected fault was reached.   *)
(***************************************************************************)
Outcome(db, exc, fired) ==
  [listings |-> db.listings, price_history |-> db.price_history,
   committed_listings |-> db.committed_listings,
   committed_history |-> db.committed_history,
   tx_status |-> db.tx_status, stats |-> db.stats, exc |-> exc, fired |-> fired,
   stmt |-> "none"]

\* the same, with the statement that raised exc
RaisedAt(out, stmt) == [out EXCEPT !.stmt = stmt]

\* a statement raised with the injected fault f
Raise(db, f) ==
  RaisedAt(Outcome([db EXCEPT !.tx_status = TxAfterError(f.kind, db.tx_status)],
                   f.kind, TRUE), f.stmt)

\* mutation: _upsert_one returns without committing
CommitLeftOut(db, f) == Outcome(db, "none", FALSE)

\* await conn.commit(): the view becomes durable; a failing COMMIT rolls the
\* transaction back
Commit(db, f) ==
  IF f.stmt = StmtCommit
    THEN RaisedAt(Outcome([db EXCEPT !.listings = db.committed_listings,
                                     !.price_history = db.committed_history,
                                     !.tx_status = "IDLE"], f.kind, TRUE),
                  StmtCommit)
    ELSE Outcome([db EXCEPT !.committed_listings = db.listings,
                            !.committed_history = db.price_history,
                            !.tx_status = "IDLE"], "none", FALSE)

\* steps 5 and 6: read the listing back, decide price_changed, write history
CheckAndWriteHistory(db, before, sid, r, product_id, discount_pct, f) ==
  IF f.stmt = StmtReadBack THEN Raise(db, f)
  ELSE
    LET existing   == ReadBack(db.listings, before, product_id, sid)
        listing_id == ListingId(existing)
        changed    == PriceChanged(existing, r.current_price, r.stock_status)
    IN  IF changed /\ listing_id # 0
          THEN IF f.stmt = StmtHistory THEN Raise(db, f)
               ELSE Commit(
                      [db EXCEPT
                         !.price_history =
                            Append(@, HistoryRow(listing_id, r.current_price,
                                                 discount_pct, InStock(r.stock_status))),
                         !.stats.price_changes = @ + 1], f)
          ELSE Commit(db, f)

UpsertOne(db, sid, r, f) ==
  IF db.tx_status = "INERROR"
    THEN RaisedAt(Outcome(db, "InFailedSqlTransaction", FALSE), StmtLookup)
  ELSE IF f.stmt = StmtLookup THEN Raise(db, f)
  ELSE
    LET product_row == LookupProduct(r.gw_item_number)
        db1 == [db EXCEPT !.tx_status = "INTRANS"]
    IN  IF product_row = {}
          THEN Outcome([db1 EXCEPT !.stats.unmatched = Append(@, r.gw_item_number)],
                       "none", FALSE)
          ELSE
            LET product == CHOOSE p \in product_row : TRUE
                db2 == [db1 EXCEPT !.stats.matched = @ + 1]
                discount_pct == DiscountPct(product.gw_rrp_usd, r.current_price)
            IN  IF f.stmt = StmtUpsert THEN Raise(db2, f)
                ELSE
                  LET db3 == [db2 EXCEPT
                                !.listings =
                                   UpsertListing(@, db.committed_listings, product.id, sid,
                                                 r, r.current_price, discount_pct,
                                                 r.stock_status),
                                !.stats.upserted = @ + 1]
                  IN  CheckAndWriteHistory(db3, db.listings, sid, r, product.id,
                                           discount_pct, f)

\* mutation: the except clause logs the exception without recording it
CatchItemErrorUnrecorded(st, r, exc, stmt) == st

\* upsert_results: except Exception as exc: stats.errors.append(f"{key}: {exc}")
CatchItemError(st, r, exc, stmt) ==
  IF exc = "none" THEN st
  ELSE [st EXCEPT !.errors = Append(@, [key |-> r.gw_item_number, exc |-> exc,
                                        stmt |-> stmt])]

(***************************************************************************)
(* db.py: upsert_results                                                   *)
(***************************************************************************)
DbState ==
  [listings |-> listings, price_history |-> price_history,
   committed_listings |-> committed_listings,
   committed_history |-> committed_history,
   tx_status |-> tx_status, stats |-> stats]

\* the listings table as an earlier run for another store left it: GameNerdz
\* lists the product that Miniature Market is about to list too
SeededListings ==
  {[id |-> 1, product_id |-> "p1", store_id |-> "s2",
    store_product_url |-> <<"https://gamenerdz/p/", "48-75">>,
    store_sku |-> "None",
    current_price |-> 4600, discount_pct |-> 800,
    in_stock |-> TRUE, stock_status |-> "in_stock",
    affiliate_url |-> "None"]}

DbInit ==
  /\ listings = SeededListings
  /\ price_history = <<>>
  /\ committed_listings = SeededListings
  /\ committed_history = <<>>
  /\ tx_status = "IDLE"
  /\ pc = "idle"
  /\ store_id = "none"
  /\ results = <<>>
  /\ stats = NewStats("none", 0)
  /\ injected = {}
  /\ store_slug \in CalledSlugs

\* a call on a slug with an active store row: connect, resolve store_id;
\* the call is given a results list of n items, read one by one by the loop
UpsertResultsStart ==
  /\ pc \in {"idle", "returned", "raised"}
  /\ ResolveStore(store_slug) # {}
  /\ store_id' = (CHOOSE s \in ResolveStore(store_slug) : TRUE).id
  /\ \E n \in 0..MaxBatch : stats' = NewStats(store_slug, n)
  /\ results' = <<>>
  /\ pc' = "loop"
  /\ injected' = {}
  /\ tx_status' = "INTRANS"
  /\ UNCHANGED <<listings, price_history, committed_listings, committed_history,
                 store_slug>>

\* a call on a slug with no active store row: ValueError leaves the
\* "async with" block, which rolls back and closes the connection
UpsertResultsStoreNotFound ==
  /\ pc \in {"idle", "returned", "raised"}
  /\ ResolveStore(store_slug) = {}
  /\ \E n \in 0..MaxBatch : stats' = NewStats(store_slug, n)
  /\ results' = <<>>
  /\ store_id' = "none"
  /\ pc' = "raised"
  /\ injected' = {}
  /\ tx_status' = "IDLE"
  /\ UNCHANGED <<listings, price_history, committed_listings, committed_history,
                 store_slug>>

\* one iteration of "for result in results": _upsert_one inside try/except
UpsertItem ==
  /\ pc = "loop"
  /\ Len(results) < stats.total_scraped
  /\ \E result \in PriceResult, f \in Faults \cup {NoFault} :
       LET out == UpsertOne(DbState, store_id, result, f)
       IN  /\ (f # NoFault) => out.fired
           /\ results' = Append(results, result)
           /\ listings' = out.listings
           /\ price_history' = out.price_history
           /\ committed_listings' = out.committed_listings
           /\ committed_history' = out.committed_history
           /\ tx_status' = out.tx_status
           /\ stats' = CatchItemError(out.stats, result, out.exc, out.stmt)
           /\ injected' = IF out.fired THEN injected \cup {Len(results) + 1}
                                       ELSE injected
  /\ UNCHANGED <<pc, store_id, store_slug>>

\* mutation: the call returns with its transaction left open
UpsertResultsReturnKeepsOpen ==
  /\ pc = "loop"
  /\ Len(results) = stats.total_scraped
  /\ pc' = "returned"
  /\ UNCHANGED <<listings, price_history, committed_listings, committed_history,
                 tx_status, store_id, results, stats, injected, store_slug>>

\* the loop ended: leaving "async with conn" commits an open transaction
\* (an aborted one is rolled back by that COMMIT), then stats is returned
UpsertResultsReturn ==
  /\ pc = "loop"
  /\ Len(results) = stats.total_scraped
  /\ IF tx_status = "INERROR"
       THEN /\ listings' = committed_listings
            /\ price_history' = committed_history
            /\ UNCHANGED <<committed_listings, committed_history>>
       ELSE /\ committed_listings' = listings
            /\ committed_history' = price_history
            /\ UNCHANGED <<listings, price_history>>
  /\ tx_status' = "IDLE"
  /\ pc' = "returned"
  /\ UNCHANGED <<store_id, results, stats, injected, store_slug>>

DbNext ==
  \/ UpsertResultsStart
  \/ UpsertResultsStoreNotFound
  \/ UpsertItem
  \/ UpsertResultsReturn

\* the orchestrator is not running while the ingestion engine is checked
RunIdle ==
  /\ task = <<>>
  /\ all_stats = <<>>
  /\ main_pc = "off"
  /\ changed_stores = <<>>
  /\ failed = 0
  /\ webhook = "not_called"
  /\ secret_set = FALSE
  /\ total_matched = 0
  /\ total_changes = 0
  /\ exit_code = -1

(***************************************************************************)
(* run_all.py: run_scraper and main                                        *)
(***************************************************************************)
\* SCRAPERS, in list order, with the store_slug of each class
Scrapers ==
  << [cls |-> "MiniatureMarketScraper",  store_slug |-> "miniature-market"],
     [cls |-> "DiscountGamesIncScraper", store_slug |-> "discount-games-inc"],
     [cls |-> "FrontlineGamingScraper",  store_slug |-> "frontline-gaming"],
     [cls |-> "GameNerdzScraper",        store_slug |-> "gamenerdz"] >>

ScraperIds == DOMAIN Scrapers

NoneResult == [kind |-> "None"]

\* the UpsertStats stream_upsert can hand back: nothing scraped; only
\* unmatched items; a matched item that failed; an upsert without a change;
\* an upsert with a history row; a mix of all of them
StreamUpsertStats ==
  { [kind |-> "stats", matched |-> 0, upserted |-> 0, price_changes |-> 0,
     unmatched |-> 0, errors |-> 0],
    [kind |-> "stats", matched |-> 0, upserted |-> 0, price_changes |-> 0,
     unmatched |-> 2, errors |-> 0],
    [kind |-> "stats", matched |-> 1, upserted |-> 0, price_changes |-> 0,
     unmatched |-> 0, errors |-> 1],
    [kind |-> "stats", matched |-> 1, upserted |-> 1, price_changes |-> 0,
     unmatched |-> 0, errors |-> 0],
    [kind |-> "stats", matched |-> 1, upserted |-> 1, price_changes |-> 1,
     unmatched |-> 0, errors |-> 0],
    [kind |-> "stats", matched |-> 3, upserted |-> 2, price_changes |-> 1,
     unmatched |-> 1, errors |-> 1] }

\* mutation: run_scraper lets the exception out of the coroutine
RunScraperReraise(exc) == [kind |-> "raised", exc |-> exc]

\* run_scraper: except Exception: logger.exception(...); return None
RunScraperExcept(exc) == NoneResult

Finished(t) == t \in {"returned", "failed"}

\* asyncio.gather(*tasks) without return_exceptions: it raises into main as
\* soon as a task has raised, and otherwise returns when every task is done
GatherRaises == \E i \in ScraperIds : all_stats[i].kind = "raised"
GatherReady  == GatherRaises \/ \A i \in ScraperIds : Finished(task[i])

RunInit ==
  /\ task = [i \in ScraperIds |-> "pending"]
  /\ all_stats = [i \in ScraperIds |-> [kind |-> "running"]]
  /\ main_pc = "gather"
  /\ changed_stores = <<>>
  /\ failed = 0
  /\ webhook = "not_called"
  /\ secret_set \in BOOLEAN
  /\ total_matched = 0
  /\ total_changes = 0
  /\ exit_code = -1

mainVars == <<main_pc, changed_stores, failed, webhook, secret_set,
              total_matched, total_changes, exit_code>>

\* async with scraper_cls() as scraper: the client is set up
RunScraperEnter(i) ==
  /\ main_pc = "gather"
  /\ task[i] = "pending"
  /\ task' = [task EXCEPT ![i] = "scraping"]
  /\ UNCHANGED <<all_stats, mainVars>>

\* constructing the scraper or its client raises
RunScraperSetupFails(i) ==
  /\ main_pc = "gather"
  /\ task[i] = "pending"
  /\ task' = [task EXCEPT ![i] = "failed"]
  /\ all_stats' = [all_stats EXCEPT ![i] = RunScraperExcept("setup")]
  /\ UNCHANGED mainVars

\* stream_upsert pulled the observations out of scraper.scrape()
StreamUpsertScraped(i) ==
  /\ main_pc = "gather"
  /\ task[i] = "scraping"
  /\ task' = [task EXCEPT ![i] = "ingesting"]
  /\ UNCHANGED <<all_stats, mainVars>>

\* an exception leaves scraper.scrape()
StreamUpsertScrapeFails(i) ==
  /\ main_pc = "gather"
  /\ task[i] = "scraping"
  /\ task' = [task EXCEPT ![i] = "failed"]
  /\ all_stats' = [all_stats EXCEPT ![i] = RunScraperExcept("scrape")]
  /\ UNCHANGED mainVars

\* stream_upsert returns its stats, the client is closed, stats is returned
StreamUpsertReturns(i) ==
  /\ main_pc = "gather"
  /\ task[i] = "ingesting"
  /\ task' = [task EXCEPT ![i] = "returned"]
  /\ \E st \in StreamUpsertStats : all_stats' = [all_stats EXCEPT ![i] = st]
  /\ UNCHANGED mainVars

\* the ingestion raises (store not found or inactive, connection failure)
StreamUpsertIngestFails(i) ==
  /\ main_pc = "gather"
  /\ task[i] = "ingesting"
  /\ task' = [task EXCEPT ![i] = "failed"]
  /\ all_stats' = [all_stats EXCEPT ![i] = RunScraperExcept("ingest")]
  /\ UNCHANGED mainVars

\* mutation: only a written history row makes a store a changed store
ChangedStoresHistoryOnly(results_of, i) ==
  LET picked == SelectSeq([n \in ScraperIds |-> n],
                          LAMBDA n : /\ n >= i
                                     /\ results_of[n].kind = "stats"
                                     /\ results_of[n].price_changes > 0)
  IN  [k \in DOMAIN picked |-> Scrapers[picked[k]].store_slug]

\* main, lines 97-103: the loop over all_stats in SCRAPERS order
RECURSIVE ChangedStores(_, _)
ChangedStores(results_of, i) ==
  IF i > Len(Scrapers) THEN <<>>
  ELSE LET st == results_of[i]
           rest == ChangedStores(results_of, i + 1)
       IN  IF st.kind = "stats" /\ (st.price_changes > 0 \/ st.upserted > 0)
             THEN <<Scrapers[i].store_slug>> \o rest
             ELSE rest

CountFailed(results_of) ==
  Cardinality({i \in ScraperIds : results_of[i].kind = "None"})

RECURSIVE SumOver(_, _, _)
SumOver(results_of, field, i) ==
  IF i > Len(Scrapers) THEN 0
  ELSE (IF results_of[i].kind = "stats" THEN results_of[i][field] ELSE 0)
       + SumOver(results_of, field, i + 1)

\* mutation: main forgets the failed scrapers when it picks the exit code
ExitCodeAlwaysZero(n_failed) == 0

\* return 1 if failed else 0
ExitCode(n_failed) == IF n_failed # 0 THEN 1 ELSE 0

\* await asyncio.gather(*tasks) returns (or raises), then lines 97-103
MainCollect ==
  /\ main_pc = "gather"
  /\ GatherReady
  /\ IF GatherRaises
       THEN /\ main_pc' = "crashed"
            /\ UNCHANGED <<changed_stores, failed>>
       ELSE /\ main_pc' = "webhook"
            /\ changed_stores' = ChangedStores(all_stats, 1)
            /\ failed' = CountFailed(all_stats)
  /\ UNCHANGED <<task, all_stats, webhook, secret_set, total_matched,
                 total_changes, exit_code>>

\* mutation: post_revalidation_webhook lets a failed POST raise into main
PostRevalidationWebhookRaises ==
  /\ main_pc = "webhook"
  /\ IF secret_set THEN webhook' \in {"ok", "failed"} ELSE webhook' = "skipped"
  /\ main_pc' = IF webhook' = "failed" THEN "crashed" ELSE "totals"
  /\ UNCHANGED <<task, all_stats, changed_stores, failed, secret_set,
                 total_matched, total_changes, exit_code>>

\* post_revalidation_webhook: skipped without a secret; otherwise the POST
\* succeeds or fails, and a failure is logged and swallowed
PostRevalidationWebhook ==
  /\ main_pc = "webhook"
  /\ IF secret_set THEN webhook' \in {"ok", "failed"} ELSE webhook' = "skipped"
  /\ main_pc' = "totals"
  /\ UNCHANGED <<task, all_stats, changed_stores, failed, secret_set,
                 total_matched, total_changes, exit_code>>

\* main, lines 108-117: the totals are logged and the exit code returned
MainReturn ==
  /\ main_pc = "totals"
  /\ total_matched' = SumOver(all_stats, "matched", 1)
  /\ total_changes' = SumOver(all_stats, "price_changes", 1)
  /\ exit_code' = ExitCode(failed)
  /\ main_pc' = "done"
  /\ UNCHANGED <<task, all_stats, changed_stores, failed, webhook, secret_set>>

RunNext ==
  \/ \E i \in ScraperIds :
       \/ RunScraperEnter(i)
       \/ RunScraperSetupFails(i)
       \/ StreamUpsertScraped(i)
       \/ StreamUpsertScrapeFails(i)
       \/ StreamUpsertReturns(i)
       \/ StreamUpsertIngestFails(i)
  \/ MainCollect
  \/ PostRevalidationWebhook
  \/ MainReturn

\* the database is not modelled while the orchestrator is checked
DbIdle == DbInit /\ store_slug = "miniature-market"

(***************************************************************************)
(* base_store.py: BaseStore.get under its tenacity retry policy            *)
(***************************************************************************)
\* how one request attempt can end: a 2xx response, or an exception
AttemptOutcomes ==
  {"ok", "HTTPStatusError", "ConnectTimeout", "ReadTimeout", "ConnectError",
   "ReadError", "RemoteProtocolError", "RuntimeError"}

\* the httpx class each exception is an instance of, as far as the retry
\* predicate can tell
ExceptionBase(exc) ==
  CASE exc \in {"ConnectTimeout", "ReadTimeout"} -> "TimeoutException"
    [] exc \in {"ConnectError", "ReadError"}     -> "NetworkError"
    [] exc = "RemoteProtocolError"               -> "ProtocolError"
    [] exc = "HTTPStatusError"                   -> "HTTPStatusError"
    [] OTHER                                     -> "Exception"

\* mutation: retry on every exception
RetryIfAnyException(exc) == TRUE

\* retry=retry_if_exception_type((httpx.TimeoutException, httpx.NetworkError))
RetryIfExceptionType(exc) ==
  ExceptionBase(exc) \in {"TimeoutException", "NetworkError"}

\* stop=stop_after_attempt(3)
MaxAttemptNumber == 3

\* mutation: the stop condition tests "more than" the limit
StopAfterAttemptOffByOne(n) == n > MaxAttemptNumber

StopAfterAttempt(n) == n >= MaxAttemptNumber

\* wait=wait_exponential(multiplier=1, min=4, max=30)
WaitMultiplier == 1
WaitMin == 4
WaitMax == 30

RECURSIVE Pow2(_)
Pow2(n) == IF n <= 0 THEN 1 ELSE 2 * Pow2(n - 1)

Min2(a, b) == IF a < b THEN a ELSE b
Max2(a, b) == IF a > b THEN a ELSE b

WaitExponential(n) ==
  Max2(Max2(0, WaitMin), Min2(WaitMultiplier * Pow2(n - 1), WaitMax))

\* what tenacity does after attempt n ended with outcome o (reraise=True)
AfterAttempt(n, o) ==
  IF o = "ok" THEN "return"
  ELSE IF ~RetryIfExceptionType(o) THEN "raise"
  ELSE IF StopAfterAttempt(n) THEN "raise"
  ELSE "retry"

\* the outcomes an attempt can have: without a client, self.client raises
PossibleOutcomes(open) ==
  IF open THEN AttemptOutcomes \ {"RuntimeError"} ELSE {"RuntimeError"}

GetInit ==
  /\ get_pc = "idle"
  /\ client_open \in BOOLEAN
  /\ attempt_number = 0
  /\ outcomes = <<>>
  /\ waits = <<>>
  /\ raised_exc = "none"
  /\ returned_attempt = 0

\* await self.get(url): tenacity starts attempt 1
GetCall ==
  /\ get_pc = "idle"
  /\ get_pc' = "attempt"
  /\ attempt_number' = 1
  /\ UNCHANGED <<client_open, outcomes, waits, raised_exc, returned_attempt>>

\* the attempt ends: the response is returned, the exception is raised to
\* the caller, or tenacity starts sleeping before the next attempt
GetAttemptEnds ==
  /\ get_pc = "attempt"
  /\ \E o \in PossibleOutcomes(client_open) :
       LET then == AfterAttempt(attempt_number, o)
       IN  /\ outcomes' = Append(outcomes, o)
           /\ get_pc' = CASE then = "return" -> "returned"
                          [] then = "raise"  -> "raised"
                          [] OTHER           -> "waiting"
           /\ raised_exc' = IF then = "raise" THEN o ELSE raised_exc
           /\ returned_attempt' = IF then = "return" THEN attempt_number ELSE 0
           /\ waits' = IF then = "retry"
                         THEN Append(waits, WaitExponential(attempt_number))
                         ELSE waits
  /\ UNCHANGED <<client_open, attempt_number>>

\* the sleep is over: the next attempt starts
GetRetry ==
  /\ get_pc = "waiting"
  /\ get_pc' = "attempt"
  /\ attempt_number' = attempt_number + 1
  /\ UNCHANGED <<client_open, outcomes, waits, raised_exc, returned_attempt>>

GetNext == GetCall \/ GetAttemptEnds \/ GetRetry

\* no call of get is followed while another part is checked
GetIdle == GetInit /\ client_open = TRUE

(***************************************************************************)
(* stores/*.py: scrape() of the three scrapers that fetch product pages    *)
(* through BaseStore.get under an asyncio.Semaphore.  Coroutines of one    *)
(* kind are interchangeable, so the state counts how many are in each      *)
(* position.                                                               *)
(***************************************************************************)
\* most product URLs one sitemap or category crawl hands to the fetch pool
MaxUrls == 9

PoolScrapers == {"miniature-market", "discount-games-inc", "gamenerdz"}

\* _CONCURRENCY of each scraper
MMConcurrency  == 8
DGIConcurrency == 4
GNConcurrency  == 6

Concurrency(sc) ==
  CASE sc = "miniature-market"   -> MMConcurrency
    [] sc = "discount-games-inc" -> DGIConcurrency
    [] OTHER                     -> GNConcurrency

\* Discount Games Inc: _CAT_CONCURRENCY and len(_CATEGORIES)
CatConcurrency == 3
NumCategories  == 13

\* positions of a request made through BaseStore.get: attempt n in flight,
\* or tenacity sleeping after attempt n
Req  == <<"req1", "req2", "req3">>
Wait == <<"wait1", "wait2">>
RequestPositions == {"req1", "wait1", "req2", "wait2", "req3"}

AttemptOf(pos) ==
  CASE pos = "req1" -> 1 [] pos = "req2" -> 2 [] OTHER -> 3

\* fetch_one: waiting for the semaphore, in the politeness sleep, inside get,
\* finished
FetchPositions == {"queued", "sleep", "done"} \cup RequestPositions

\* a URL-collecting coroutine: about to request a page (for a category:
\* waiting for the category semaphore), inside get, in its page sleep,
\* awaiting the fetch pool, finished
CollPositions == {"ready", "sleep", "batch", "done"} \cup RequestPositions

Move(bag, from, to) == [bag EXCEPT ![from] = @ - 1, ![to] = @ + 1]

RECURSIVE SumPositions(_, _)
SumPositions(bag, P) ==
  IF P = {} THEN 0
  ELSE LET x == CHOOSE y \in P : TRUE
       IN  bag[x] + SumPositions(bag, P \ {x})

\* requests issued by get and not yet returned or failed
InFlight(bag) == SumPositions(bag, RequestPositions)

\* mutation: the semaphore lets a caller in when its value is already 0
SemaphoreFreeOffByOne(value) == value >= 0

\* asyncio.Semaphore.acquire proceeds without waiting while the value is > 0
SemaphoreFree(value) == value > 0

\* the scrapers whose collecting coroutine is the scrape() coroutine itself
Sequential(sc) == sc \in {"miniature-market", "gamenerdz"}

PoolInit ==
  /\ scraper \in PoolScrapers
  /\ phase = "collect"
  /\ coll = [p \in CollPositions |->
               CASE p = "ready" /\ scraper = "miniature-market"   -> 1
                 [] p = "ready" /\ scraper = "discount-games-inc" -> NumCategories
                 [] p = "sleep" /\ scraper = "gamenerdz"          -> 1
                 [] OTHER -> 0]
  /\ mm_step = 1
  /\ found_urls = FALSE
  /\ cat_sem = CatConcurrency
  /\ fetch = [p \in FetchPositions |-> 0]
  /\ semaphore = IF scraper = "gamenerdz" THEN GNConcurrency ELSE 0

\* the fetch pool of one crawl: one fetch_one task per URL, under
\* asyncio.Semaphore(_CONCURRENCY) (created here; by GameNerdz once, before
\* its page loop)
StartBatch(n) ==
  /\ phase' = "products"
  /\ fetch' = [p \in FetchPositions |-> IF p = "queued" THEN n ELSE 0]
  /\ semaphore' = IF scraper = "gamenerdz" THEN semaphore ELSE Concurrency(scraper)

\* a collecting coroutine issues its request; a category first takes the
\* category semaphore
CollRequest ==
  /\ phase = "collect"
  /\ coll["ready"] > 0
  /\ IF scraper = "discount-games-inc"
       THEN SemaphoreFree(cat_sem) /\ cat_sem' = cat_sem - 1
       ELSE UNCHANGED cat_sem
  /\ coll' = Move(coll, "ready", "req1")
  /\ UNCHANGED <<scraper, phase, mm_step, found_urls, fetch, semaphore>>

\* tenacity's sleep of a collecting request is over
CollRetry ==
  /\ phase = "collect"
  /\ \E n \in DOMAIN Wait :
       /\ coll[Wait[n]] > 0
       /\ coll' = Move(coll, Wait[n], Req[n + 1])
  /\ UNCHANGED <<scraper, phase, mm_step, found_urls, cat_sem, fetch, semaphore>>

\* an attempt of a collecting request fails with a transient error and
\* tenacity sleeps (the category semaphore stays held)
CollAttemptRetried ==
  /\ phase = "collect"
  /\ \E pos \in {"req1", "req2", "req3"}, o \in AttemptOutcomes \ {"RuntimeError"} :
       /\ coll[pos] > 0
       /\ AfterAttempt(AttemptOf(pos), o) = "retry"
       /\ coll' = Move(coll, pos, Wait[AttemptOf(pos)])
  /\ UNCHANGED <<scraper, phase, mm_step, found_urls, cat_sem, fetch, semaphore>>

\* Miniature Market, _fetch_product_urls: a sitemap request ends.  An
\* exception leaves scrape(); an index without a .xml.gz entry or a sitemap
\* without product URLs returns []; otherwise the next step follows
MMCollected ==
  /\ scraper = "miniature-market"
  /\ phase = "collect"
  /\ \E pos \in {"req1", "req2", "req3"}, o \in AttemptOutcomes \ {"RuntimeError"},
        n \in 0..MaxUrls :
       /\ coll[pos] > 0
       /\ AfterAttempt(AttemptOf(pos), o) # "retry"
       /\ IF AfterAttempt(AttemptOf(pos), o) = "raise"
            THEN /\ phase' = "raised"
                 /\ coll' = Move(coll, pos, "done")
                 /\ UNCHANGED <<mm_step, fetch, semaphore>>
            ELSE IF n = 0
            THEN /\ phase' = "returned"
                 /\ coll' = Move(coll, pos, "done")
                 /\ UNCHANGED <<mm_step, fetch, semaphore>>
            ELSE IF mm_step = 1
            THEN /\ mm_step' = 2
                 /\ coll' = Move(coll, pos, "ready")
                 /\ UNCHANGED <<phase, fetch, semaphore>>
            ELSE /\ StartBatch(n)
                 /\ coll' = Move(coll, pos, "batch")
                 /\ UNCHANGED mm_step
  /\ UNCHANGED <<scraper, found_urls, cat_sem>>

\* GameNerdz, _fetch_sitemap_page inside scrape: the request ends.  An
\* exception or an empty page ends the loop; otherwise the page's URLs are
\* fetched before the next page is asked for
GNCollected ==
  /\ scraper = "gamenerdz"
  /\ phase = "collect"
  /\ \E pos \in {"req1", "req2", "req3"}, o \in AttemptOutcomes \ {"RuntimeError"},
        n \in 0..MaxUrls :
       /\ coll[pos] > 0
       /\ AfterAttempt(AttemptOf(pos), o) # "retry"
       /\ IF AfterAttempt(AttemptOf(pos), o) = "raise" \/ n = 0
            THEN /\ phase' = "returned"
                 /\ coll' = Move(coll, pos, "done")
                 /\ UNCHANGED <<fetch, semaphore>>
            ELSE /\ StartBatch(n)
                 /\ coll' = Move(coll, pos, "batch")
  /\ UNCHANGED <<scraper, mm_step, found_urls, cat_sem>>

\* Discount Games Inc, _paginate_category: the page request ends and the
\* category semaphore is released.  An exception or a page without new URLs
\* ends the category; otherwise it sleeps and asks for the next page
DGICollected ==
  /\ scraper = "discount-games-inc"
  /\ phase = "collect"
  /\ \E pos \in {"req1", "req2", "req3"}, o \in AttemptOutcomes \ {"RuntimeError"},
        new \in BOOLEAN :
       /\ coll[pos] > 0
       /\ AfterAttempt(AttemptOf(pos), o) # "retry"
       /\ cat_sem' = cat_sem + 1
       /\ IF AfterAttempt(AttemptOf(pos), o) = "raise" \/ ~new
            THEN /\ coll' = Move(coll, pos, "done")
                 /\ UNCHANGED found_urls
            ELSE /\ coll' = Move(coll, pos, "sleep")
                 /\ found_urls' = TRUE
  /\ UNCHANGED <<scraper, phase, mm_step, fetch, semaphore>>

\* asyncio.sleep between pages is over (GameNerdz: before each page)
CollWake ==
  /\ phase = "collect"
  /\ coll["sleep"] > 0
  /\ coll' = Move(coll, "sleep", "ready")
  /\ UNCHANGED <<scraper, phase, mm_step, found_urls, cat_sem, fetch, semaphore>>

\* Discount Games Inc: gather over the categories returned; scrape returns
\* [] without product URLs and starts the fetch pool otherwise
DGICollectDone ==
  /\ scraper = "discount-games-inc"
  /\ phase = "collect"
  /\ coll["done"] = NumCategories
  /\ IF found_urls
       THEN \E n \in 1..MaxUrls : StartBatch(n)
       ELSE phase' = "returned" /\ UNCHANGED <<fetch, semaphore>>
  /\ UNCHANGED <<scraper, coll, mm_step, found_urls, cat_sem>>

\* fetch_one: "async with semaphore" lets the task in
FetchAcquire ==
  /\ phase = "products"
  /\ fetch["queued"] > 0
  /\ SemaphoreFree(semaphore)
  /\ semaphore' = semaphore - 1
  /\ fetch' = Move(fetch, "queued", "sleep")
  /\ UNCHANGED <<scraper, phase, coll, mm_step, found_urls, cat_sem>>

\* fetch_one: the politeness sleep is over, self.get(url) issues the request
FetchRequest ==
  /\ phase = "products"
  /\ fetch["sleep"] > 0
  /\ fetch' = Move(fetch, "sleep", "req1")
  /\ UNCHANGED <<scraper, phase, coll, mm_step, found_urls, cat_sem, semaphore>>

\* an attempt fails with a transient error and tenacity sleeps, slot held
FetchAttemptRetried ==
  /\ phase = "products"
  /\ \E pos \in {"req1", "req2", "req3"}, o \in AttemptOutcomes \ {"RuntimeError"} :
       /\ fetch[pos] > 0
       /\ AfterAttempt(AttemptOf(pos), o) = "retry"
       /\ fetch' = Move(fetch, pos, Wait[AttemptOf(pos)])
  /\ UNCHANGED <<scraper, phase, coll, mm_step, found_urls, cat_sem, semaphore>>

FetchRetry ==
  /\ phase = "products"
  /\ \E n \in DOMAIN Wait :
       /\ fetch[Wait[n]] > 0
       /\ fetch' = Move(fetch, Wait[n], Req[n + 1])
  /\ UNCHANGED <<scraper, phase, coll, mm_step, found_urls, cat_sem, semaphore>>

\* mutation: fetch_one ends without giving its slot back
FetchDoneKeepsSlot ==
  /\ phase = "products"
  /\ \E pos \in {"req1", "req2", "req3"}, o \in AttemptOutcomes \ {"RuntimeError"} :
       /\ fetch[pos] > 0
       /\ AfterAttempt(AttemptOf(pos), o) # "retry"
       /\ fetch' = Move(fetch, pos, "done")
  /\ UNCHANGED <<scraper, phase, coll, mm_step, found_urls, cat_sem, semaphore>>

\* get returned or raised: fetch_one parses the page or swallows the
\* exception, and leaving "async with semaphore" releases the slot
FetchDone ==
  /\ phase = "products"
  /\ \E pos \in {"req1", "req2", "req3"}, o \in AttemptOutcomes \ {"RuntimeError"} :
       /\ fetch[pos] > 0
       /\ AfterAttempt(AttemptOf(pos), o) # "retry"
       /\ fetch' = Move(fetch, pos, "done")
  /\ semaphore' = semaphore + 1
  /\ UNCHANGED <<scraper, phase, coll, mm_step, found_urls, cat_sem>>

\* as_completed is exhausted: scrape returns its results; GameNerdz yields
\* the batch and sleeps before asking for the next sitemap page
BatchDone ==
  /\ phase = "products"
  /\ fetch["done"] > 0
  /\ \A p \in FetchPositions \ {"done"} : fetch[p] = 0
  /\ IF scraper = "gamenerdz"
       THEN /\ phase' = "collect"
            /\ coll' = Move(coll, "batch", "sleep")
       ELSE /\ phase' = "returned"
            /\ UNCHANGED coll
  /\ UNCHANGED <<scraper, mm_step, found_urls, cat_sem, fetch, semaphore>>

PoolNext ==
  \/ CollRequest
  \/ CollRetry
  \/ CollAttemptRetried
  \/ MMCollected
  \/ GNCollected
  \/ DGICollected
  \/ CollWake
  \/ DGICollectDone
  \/ FetchAcquire
  \/ FetchRequest
  \/ FetchAttemptRetried
  \/ FetchRetry
  \/ FetchDone
  \/ BatchDone

\* no scrape is followed while another part is checked
PoolIdle ==
  /\ scraper = "none"
  /\ phase = "off"
  /\ coll = <<>>
  /\ mm_step = 1
  /\ found_urls = FALSE
  /\ cat_sem = 0
  /\ fetch = <<>>
  /\ semaphore = 0

(***************************************************************************)
(* base_store.py: strings.  A str is modelled as the sequence of its       *)
(* characters, so that strip() and lower() are computed, not assumed.      *)
(***************************************************************************)
\* whitespace str.strip() removes
Whitespace == {" ", "\t", "\n"}

UpperLetters == <<"A", "B", "C", "D", "E", "F", "G", "H", "I", "J", "K", "L", "M", "N", "O", "P", "Q", "R", "S", "T", "U", "V", "W", "X", "Y", "Z">>
LowerLetters == <<"a", "b", "c", "d", "e", "f", "g", "h", "i", "j", "k", "l", "m", "n", "o", "p", "q", "r", "s", "t", "u", "v", "w", "x", "y", "z">>

\* str.lower() on one character
LowerChar(c) ==
  IF \E n \in DOMAIN UpperLetters : UpperLetters[n] = c
    THEN LowerLetters[CHOOSE n \in DOMAIN UpperLetters : UpperLetters[n] = c]
    ELSE c

\* str.lower()
StrLower(s) == [n \in DOMAIN s |-> LowerChar(s[n])]

\* str.strip(): leading and trailing whitespace removed
StrStrip(s) ==
  LET inked == {n \in DOMAIN s : s[n] \notin Whitespace}
  IN  IF inked = {} THEN <<>>
      ELSE SubSeq(s, CHOOSE n \in inked : \A m \in inked : n <= m,
                     CHOOSE n \in inked : \A m \in inked : n >= m)

(***************************************************************************)
(* base_store.py: _STOCK_NORMALIZATION and normalize_stock_status          *)
(***************************************************************************)
StockNormalization ==
  { [key |-> <<"i", "n", " ", "s", "t", "o", "c", "k">>,
     status |-> "in_stock"],
    [key |-> <<"i", "n", "-", "s", "t", "o", "c", "k">>,
     status |-> "in_stock"],
    [key |-> <<"i", "n", "s", "t", "o", "c", "k">>,
     status |-> "in_stock"],
    [key |-> <<"a", "v", "a", "i", "l", "a", "b", "l", "e">>,
     status |-> "in_stock"],
    [key |-> <<"a", "d", "d", " ", "t", "o", " ", "c", "a", "r", "t">>,
     status |-> "in_stock"],
    [key |-> <<"s", "h", "i", "p", "s", " ", "n", "o", "w">>,
     status |-> "in_stock"],
    [key |-> <<"u", "s", "u", "a", "l", "l", "y", " ", "s", "h", "i", "p", "s", " ", "i", "n", " ", "2", "4", " ", "h", "o", "u", "r", "s">>,
     status |-> "in_stock"],
    [key |-> <<"u", "s", "u", "a", "l", "l", "y", " ", "s", "h", "i", "p", "s", " ", "i", "n", " ", "1", "-", "3", " ", "b", "u", "s", "i", "n", "e", "s", "s", " ", "d", "a", "y", "s">>,
     status |-> "in_stock"],
    [key |-> <<"o", "u", "t", " ", "o", "f", " ", "s", "t", "o", "c", "k">>,
     status |-> "out_of_stock"],
    [key |-> <<"o", "u", "t", "-", "o", "f", "-", "s", "t", "o", "c", "k">>,
     status |-> "out_of_stock"],
    [key |-> <<"o", "u", "t", "o", "f", "s", "t", "o", "c", "k">>,
     status |-> "out_of_stock"],
    [key |-> <<"s", "o", "l", "d", " ", "o", "u", "t">>,
     status |-> "out_of_stock"],
    [key |-> <<"u", "n", "a", "v", "a", "i", "l", "a", "b", "l", "e">>,
     status |-> "out_of_stock"],
    [key |-> <<"n", "o", "t", " ", "a", "v", "a", "i", "l", "a", "b", "l", "e">>,
     status |-> "out_of_stock"],
    [key |-> <<"b", "a", "c", "k", "o", "r", "d", "e", "r">>,
     status |-> "backorder"],
    [key |-> <<"b", "a", "c", "k", " ", "o", "r", "d", "e", "r">>,
     status |-> "backorder"],
    [key |-> <<"o", "n", " ", "b", "a", "c", "k", "o", "r", "d", "e", "r">>,
     status |-> "backorder"],
    [key |-> <<"b", "a", "c", "k", "o", "r", "d", "e", "r", "e", "d">>,
     status |-> "backorder"],
    [key |-> <<"p", "r", "e", "-", "o", "r", "d", "e", "r">>,
     status |-> "pre_order"],
    [key |-> <<"p", "r", "e", "o", "r", "d", "e", "r">>,
     status |-> "pre_order"],
    [key |-> <<"p", "r", "e", " ", "o", "r", "d", "e", "r">>,
     status |-> "pre_order"],
    [key |-> <<"c", "o", "m", "i", "n", "g", " ", "s", "o", "o", "n">>,
     status |-> "pre_order"],
    [key |-> <<"l", "i", "m", "i", "t", "e", "d">>,
     status |-> "limited"],
    [key |-> <<"l", "o", "w", " ", "s", "t", "o", "c", "k">>,
     status |-> "limited"],
    [key |-> <<"l", "i", "m", "i", "t", "e", "d", " ", "a", "v", "a", "i", "l", "a", "b", "i", "l", "i", "t", "y">>,
     status |-> "limited"],
    [key |-> <<"o", "n", "l", "y", " ", "a", " ", "f", "e", "w", " ", "l", "e", "f", "t">>,
     status |-> "limited"] }

\* _STOCK_NORMALIZATION.get(key): the entries under key (none or one)
StockNormalizationGet(key) == {e \in StockNormalization : e.key = key}

\* mutation: an unknown string is taken for in_stock
UnknownStockIsInStock(raw) ==
  LET status == StockNormalizationGet(StrLower(StrStrip(raw)))
  IN  IF status = {} THEN "in_stock"
      ELSE (CHOOSE e \in status : TRUE).status

normalize_stock_status(raw) ==
  LET key    == StrLower(StrStrip(raw))
      status == StockNormalizationGet(key)
  IN  IF status = {} THEN "out_of_stock"
      ELSE (CHOOSE e \in status : TRUE).status

\* raw strings handed to normalize_stock_status: every key of the table and
\* some strings that are not keys, in three casings, with whitespace around
UnknownStrings ==
  { <<>>,
    <<"y", "e", "s">>,
    <<"n", "/", "a">>,
    <<"i", "n", " ", " ", "s", "t", "o", "c", "k">>,
    <<"s", "o", "l", "d", " ", "o", "u", "t", "!">> }

NormalizeBases == {e.key : e \in StockNormalization} \cup UnknownStrings

UpperChar(c) ==
  IF \E n \in DOMAIN LowerLetters : LowerLetters[n] = c
    THEN UpperLetters[CHOOSE n \in DOMAIN LowerLetters : LowerLetters[n] = c]
    ELSE c

Casings == {"lower", "UPPER", "Title"}

Cased(s, casing) ==
  CASE casing = "lower" -> s
    [] casing = "UPPER" -> [n \in DOMAIN s |-> UpperChar(s[n])]
    [] casing = "Title" -> [n \in DOMAIN s |-> IF n = 1 THEN UpperChar(s[n]) ELSE s[n]]

LeftPads  == {<<>>, <<" ">>, <<"\t", " ">>}
RightPads == {<<>>, <<" ">>, <<" ", "\n">>}

NormalizeInit ==
  /\ raw_key \in NormalizeBases
  /\ \E casing \in Casings, l \in LeftPads, r \in RightPads :
       raw_input = l \o Cased(raw_key, casing) \o r
  /\ normalized = "pending"

\* one call of normalize_stock_status(raw)
Normalize ==
  /\ normalized = "pending"
  /\ normalized' = normalize_stock_status(raw_input)
  /\ UNCHANGED <<raw_key, raw_input>>

NormalizeIdle ==
  /\ raw_key = <<>>
  /\ raw_input = <<>>
  /\ normalized = "pending"

(***************************************************************************)
(* base_store.py: PriceResult.__post_init__                                *)
(***************************************************************************)
\* largest price, in cents, a construction is tried with
MaxCents == 5

\* constructor arguments tried: item numbers that are empty, blank, padded
\* or plain, and prices below, at and above zero
GwItemNumbers ==
  { <<>>,
    <<" ">>,
    <<"\t", " ">>,
    <<"\n">>,
    <<"x">>,
    <<"4", "8", "-", "7", "5">>,
    <<" ", "4", "3", "-", "0", "6">> }

CurrentPrices == (-MaxCents)..MaxCents

\* mutation: the item number is tested without strip()
PostInitNotStripped(gw_item_number, current_price) ==
  IF current_price < 0 THEN "ValueError: Negative price"
  ELSE IF gw_item_number = <<>> THEN "ValueError: gw_item_number cannot be empty"
  ELSE "constructed"

\* __post_init__: how PriceResult(gw_item_number, current_price, ...) ends
PostInit(gw_item_number, current_price) ==
  IF current_price < 0 THEN "ValueError: Negative price"
  ELSE IF StrStrip(gw_item_number) = <<>>
    THEN "ValueError: gw_item_number cannot be empty"
  ELSE "constructed"

PriceResultInit ==
  /\ pr_gw_item_number \in GwItemNumbers
  /\ pr_current_price \in CurrentPrices
  /\ pr_outcome = "pending"

\* one construction PriceResult(gw_item_number=..., current_price=..., ...)
ConstructPriceResult ==
  /\ pr_outcome = "pending"
  /\ pr_outcome' = PostInit(pr_gw_item_number, pr_current_price)
  /\ UNCHANGED <<pr_gw_item_number, pr_current_price>>

PriceResultIdle ==
  /\ pr_gw_item_number = <<>>
  /\ pr_current_price = 0
  /\ pr_outcome = "pending"

(***************************************************************************)
(* db.py: upsert_results as a function of the table it finds, the list it  *)
(* is given and the item numbers whose listing upsert PostgreSQL rejects   *)
(* (a value the column does not take)                                      *)
(***************************************************************************)
\* the fault the statements of _upsert_one meet for item r
FaultOf(r, rejected) ==
  IF r.gw_item_number \in rejected
    THEN [stmt |-> StmtUpsert, kind |-> "ServerError"]
    ELSE NoFault

\* for result in results: try: await _upsert_one(...) except Exception: ...
RECURSIVE ForResultInResults(_, _, _, _)
ForResultInResults(db, sid, rs, rejected) ==
  IF rs = <<>> THEN db
  ELSE LET out == UpsertOne(db, sid, Head(rs), FaultOf(Head(rs), rejected))
       IN  ForResultInResults(
             [listings |-> out.listings, price_history |-> out.price_history,
              committed_listings |-> out.committed_listings,
              committed_history |-> out.committed_history,
              tx_status |-> out.tx_status,
              stats |-> CatchItemError(out.stats, Head(rs), out.exc, out.stmt)],
             sid, Tail(rs), rejected)

\* one call for an active store on the durable table L and history H: the
\* rows that are durable when it returned (leaving "async with conn" commits
\* what the last item left open and rolls an aborted transaction back), and
\* the stats it returned
UpsertResultsCall(L, H, slug, rs, rejected) ==
  LET sid == (CHOOSE s \in ResolveStore(slug) : TRUE).id
      db  == ForResultInResults(
               [listings |-> L, price_history |-> H,
                committed_listings |-> L, committed_history |-> H,
                tx_status |-> "INTRANS", stats |-> NewStats(slug, Len(rs))],
               sid, rs, rejected)
  IN  IF db.tx_status = "INERROR"
        THEN [listings |-> db.committed_listings,
              price_history |-> db.committed_history, stats |-> db.stats]
        ELSE [listings |-> db.listings, price_history |-> db.price_history,
              stats |-> db.stats]

\* what a scraper hands over here: the values of PriceResult, and the list
\* price of "48-75" in each of the other stock statuses
OrderResults ==
  PriceResult
  \cup {[gw_item_number |-> "48-75", current_price |-> 5000, stock_status |-> st,
         store_product_url |-> StoreProductUrl("48-75", 5000),
         store_sku |-> StoreSku("48-75", st),
         affiliate_url |-> AffiliateUrl("48-75", 5000)] :
          st \in StockStatus}

\* results lists of at most MaxBatch items with pairwise distinct item numbers
DistinctKeyBatches ==
  UNION {{rs \in [1..n -> OrderResults] :
            \A i, j \in 1..n :
              rs[i].gw_item_number = rs[j].gw_item_number => i = j} :
         n \in 0..MaxBatch}

\* the orders in which the items of rs can arrive (asyncio.as_completed)
ArrivalOrders(rs) ==
  {[i \in 1..Len(rs) |-> rs[p[i]]] :
     p \in {q \in [1..Len(rs) -> 1..Len(rs)] :
              \A i, j \in 1..Len(rs) : q[i] = q[j] => i = j}}

\* the table a call finds: another store's listing only, or also a listing
\* of the called store from an earlier run
OwnSeededListing ==
  [id |-> 2, product_id |-> "p1", store_id |-> "s1",
   store_product_url |-> StoreProductUrl("48-75", 5000),
   store_sku |-> StoreSku("48-75", "in_stock"),
   current_price |-> 5000, discount_pct |-> 0,
   in_stock |-> TRUE, stock_status |-> "in_stock",
   affiliate_url |-> AffiliateUrl("48-75", 5000)]

StartTables == {SeededListings, SeededListings \cup {OwnSeededListing}}

\* the item numbers of rs
KeysOf(rs) == {rs[i].gw_item_number : i \in DOMAIN rs}

\* at most one item of the batch is one PostgreSQL rejects
OrderInit ==
  /\ \E t \in StartTables, rs \in DistinctKeyBatches :
       \E other \in ArrivalOrders(rs),
          rejected \in {{}} \cup {{k} : k \in KeysOf(rs)} :
         arrival = [table |-> t, first |-> rs, second |-> other,
                    rejected |-> rejected]
  /\ ingested = <<>>

\* the same batch is ingested in both arrival orders, each on the same table
IngestBothOrders ==
  /\ ingested = <<>>
  /\ ingested' =
       <<UpsertResultsCall(arrival.table, <<>>, "miniature-market", arrival.first,
                           arrival.rejected),
         UpsertResultsCall(arrival.table, <<>>, "miniature-market", arrival.second,
                           arrival.rejected)>>
  /\ UNCHANGED arrival

\* no arrival order is compared while another part is checked
OrderIdle == arrival = <<>> /\ ingested = <<>>

(***************************************************************************)
(* db.py and run_all.py: two upsert_results calls run concurrently (tasks  *)
(* of asyncio.gather), each on its own connection, in READ COMMITTED: a    *)
(* statement sees the durable rows and the rows its own open transaction   *)
(* wrote.  One step is one statement of _upsert_one.                       *)
(***************************************************************************)
\* most items in the list of one of the two concurrent calls
MaxConcurrentBatch == 2

\* the two active stores (store ids), and what their scrapers hand over:
\* both list the product "48-75"; "99-99" has no product
ConcurrentStores == {"s1", "s2"}

ConcurrentResults ==
  {r \in PriceResult : r.gw_item_number \in {"48-75", "99-99"}}

SlugOfStore(sid) == (CHOOSE s \in Stores : s.id = sid).slug

\* the listings rows connection c sees
View(c) ==
  {l \in db_listings : \A o \in conn[c].written : o.id # l.id}
  \cup conn[c].written

\* every listings row that exists, durable or not
AllRows == db_listings \cup UNION {conn[c].written : c \in ConcurrentStores}

\* the item _upsert_one of connection c is working on
CurrentResult(c) == conn[c].items[conn[c].done + 1]

\* the results lists one of the two calls can be given
ConcurrentBatches ==
  UNION {[1..n -> ConcurrentResults] : n \in 0..MaxConcurrentBatch}

\* product_row of a connection that is between two items
NoProduct ==
  [id |-> "none", gw_item_number |-> "none", gw_rrp_usd |-> 0, is_active |-> FALSE]

\* a call that has connected and resolved its store, before its first item
Connected(c, rs) ==
  [items |-> rs, done |-> 0, at |-> "lookup", product |-> NoProduct,
   written |-> {}, history |-> <<>>, existing |-> {},
   stats |-> NewStats(SlugOfStore(c), Len(rs))]

ConcurrentInit ==
  /\ db_listings = SeededListings
  /\ db_history = <<>>
  /\ \E given \in [ConcurrentStores -> ConcurrentBatches] :
       conn = [c \in ConcurrentStores |-> Connected(c, given[c])]

\* step 2 of _upsert_one: the product lookup; without a product the item is
\* recorded as unmatched and _upsert_one returns
ConnLookup(c) ==
  /\ conn[c].at = "lookup"
  /\ conn[c].done < Len(conn[c].items)
  /\ LET product_row == LookupProduct(CurrentResult(c).gw_item_number)
     IN  IF product_row = {}
           THEN conn' = [conn EXCEPT
                           ![c].stats.unmatched =
                              Append(@, CurrentResult(c).gw_item_number),
                           ![c].done = @ + 1]
           ELSE conn' = [conn EXCEPT
                           ![c].product = CHOOSE p \in product_row : TRUE,
                           ![c].stats.matched = @ + 1,
                           ![c].at = "upsert"]
  /\ UNCHANGED <<db_listings, db_history>>

\* steps 3 and 4: the discount and the listing upsert, in c's transaction
ConnUpsert(c) ==
  /\ conn[c].at = "upsert"
  /\ LET r == CurrentResult(c)
         discount_pct == DiscountPct(conn[c].product.gw_rrp_usd, r.current_price)
         after == UpsertListing(View(c), AllRows, conn[c].product.id, c, r,
                                r.current_price, discount_pct, r.stock_status)
     IN  conn' = [conn EXCEPT ![c].written = after \ db_listings,
                              ![c].stats.upserted = @ + 1,
                              ![c].at = "readback"]
  /\ UNCHANGED <<db_listings, db_history>>

\* steps 5 and 6: the listing is read back, and a price_history row is
\* inserted if the row read differs from the observation
ConnReadBack(c) ==
  /\ conn[c].at = "readback"
  /\ LET r == CurrentResult(c)
         existing == ReadBack(View(c), View(c), conn[c].product.id, c)
         listing_id == ListingId(existing)
         discount_pct == DiscountPct(conn[c].product.gw_rrp_usd, r.current_price)
     IN  IF PriceChanged(existing, r.current_price, r.stock_status) /\ listing_id # 0
           THEN conn' = [conn EXCEPT
                           ![c].existing = existing,
                           ![c].history =
                              Append(@, HistoryRow(listing_id, r.current_price,
                                                   discount_pct,
                                                   InStock(r.stock_status))),
                           ![c].stats.price_changes = @ + 1,
                           ![c].at = "commit"]
           ELSE conn' = [conn EXCEPT ![c].existing = existing,
                                     ![c].at = "commit"]
  /\ UNCHANGED <<db_listings, db_history>>

\* await conn.commit(): what c's transaction wrote becomes durable
ConnCommit(c) ==
  /\ conn[c].at = "commit"
  /\ db_listings' = View(c)
  /\ db_history' = db_history \o conn[c].history
  /\ conn' = [conn EXCEPT ![c].written = {}, ![c].history = <<>>,
                          ![c].product = NoProduct,
                          ![c].done = @ + 1, ![c].at = "lookup"]

\* the loop ended: the connection is closed and stats is returned
ConnReturn(c) ==
  /\ conn[c].at = "lookup"
  /\ conn[c].done = Len(conn[c].items)
  /\ conn' = [conn EXCEPT ![c].at = "returned"]
  /\ UNCHANGED <<db_listings, db_history>>

ConcurrentNext ==
  \E c \in ConcurrentStores :
    \/ ConnLookup(c)
    \/ ConnUpsert(c)
    \/ ConnReadBack(c)
    \/ ConnCommit(c)
    \/ ConnReturn(c)

\* no two calls run side by side while another part is checked
ConcurrentIdle == db_listings = {} /\ db_history = <<>> /\ conn = <<>>

(***************************************************************************)
(* Specifications: one per part of the pipeline, the other parts at rest  *)
(***************************************************************************)
\* nothing is being normalized, constructed, reordered or run side by side
FnIdle == NormalizeIdle /\ PriceResultIdle /\ OrderIdle /\ ConcurrentIdle

\* construction: the database as seeded, nothing else running
Init == DbInit /\ RunIdle /\ PoolIdle /\ GetIdle /\ FnIdle

\* upsert_results calls on one database
Spec ==
  Init
  /\ [][DbNext /\ UNCHANGED <<runVars, poolVars, getVars, fnVars>>]_vars

InitRun == RunInit /\ DbIdle /\ PoolIdle /\ GetIdle /\ FnIdle

\* one run of main over all scrapers
SpecRun ==
  InitRun
  /\ [][RunNext /\ UNCHANGED <<dbVars, poolVars, getVars, fnVars>>]_vars

\* main is run to its end by asyncio.run: gather hands over once every task
\* is done, the POST of the webhook ends (httpx timeout=15.0), and the
\* totals are logged
MainFairness ==
  /\ WF_runVars(MainCollect)
  /\ WF_runVars(PostRevalidationWebhook)
  /\ WF_runVars(MainReturn)

SpecRunFair == SpecRun /\ MainFairness

InitScrape == PoolInit /\ DbIdle /\ RunIdle /\ GetIdle /\ FnIdle

\* one scrape() of a store scraper with a semaphore-bounded fetch pool
SpecScrape ==
  InitScrape
  /\ [][PoolNext /\ UNCHANGED <<dbVars, runVars, getVars, fnVars>>]_vars

\* the event loop runs every task that can run: a task waiting for a free
\* slot gets it, asyncio.sleep and tenacity's wait end, every attempt ends
\* (at the latest by httpx.Timeout), and scrape() goes on once as_completed
\* is exhausted
PoolFairness ==
  /\ WF_poolVars(FetchAcquire)
  /\ WF_poolVars(FetchRequest)
  /\ WF_poolVars(FetchRetry)
  /\ WF_poolVars(FetchAttemptRetried \/ FetchDone)
  /\ WF_poolVars(BatchDone)

SpecScrapeFair == SpecScrape /\ PoolFairness

InitGet == GetInit /\ DbIdle /\ RunIdle /\ PoolIdle /\ FnIdle

\* one call of BaseStore.get
SpecGet ==
  InitGet
  /\ [][GetNext /\ UNCHANGED <<dbVars, runVars, poolVars, fnVars>>]_vars

\* the ingestion engine, the orchestrator, the fetch pool and get at rest
PipelineIdle == DbIdle /\ RunIdle /\ PoolIdle /\ GetIdle

InitNormalize ==
  NormalizeInit /\ PriceResultIdle /\ OrderIdle /\ ConcurrentIdle /\ PipelineIdle

\* calls of normalize_stock_status
SpecNormalize ==
  InitNormalize
  /\ [][Normalize
        /\ UNCHANGED <<dbVars, runVars, poolVars, getVars, prVars, ordVars,
                       concVars>>]_vars

InitPriceResult ==
  PriceResultInit /\ NormalizeIdle /\ OrderIdle /\ ConcurrentIdle /\ PipelineIdle

\* constructions of PriceResult
SpecPriceResult ==
  InitPriceResult
  /\ [][ConstructPriceResult
        /\ UNCHANGED <<dbVars, runVars, poolVars, getVars, normVars, ordVars,
                       concVars>>]_vars

InitOrder ==
  OrderInit /\ NormalizeIdle /\ PriceResultIdle /\ ConcurrentIdle /\ PipelineIdle

\* one batch ingested in two arrival orders
SpecOrder ==
  InitOrder
  /\ [][IngestBothOrders
        /\ UNCHANGED <<dbVars, runVars, poolVars, getVars, normVars, prVars,
                       concVars>>]_vars

InitConcurrent ==
  ConcurrentInit /\ NormalizeIdle /\ PriceResultIdle /\ OrderIdle /\ PipelineIdle

\* two stores' upsert_results calls interleaved statement by statement
SpecConcurrent ==
  InitConcurrent
  /\ [][ConcurrentNext
        /\ UNCHANGED <<dbVars, runVars, poolVars, getVars, normVars, prVars,
                       ordVars>>]_vars

(***************************************************************************)
(* Vocabulary of the properties of the ingestion engine                    *)
(***************************************************************************)
\* the catalog has an active product for this item number
HasActiveProduct(key) ==
  \E p \in Products : p.gw_item_number = key /\ p.is_active

ProductIdOf(key) ==
  (CHOOSE p \in Products : p.gw_item_number = key /\ p.is_active).id

\* the price_history rows of one listing, oldest first
HistoryOf(H, listing_id) ==
  SelectSeq(H, LAMBDA h : h.listing_id = listing_id)

\* a history row records the state of observation r
RecordsState(h, r) ==
  h.price = r.current_price /\ h.in_stock = InStock(r.stock_status)

\* a listing row carries the price and status of observation r
Reflects(l, r) ==
  l.current_price = r.current_price /\ l.stock_status = r.stock_status

Differ(a, b) ==
  a.current_price # b.current_price \/ a.stock_status # b.stock_status

\* this step is one loop iteration of upsert_results, on the item it appended
ItemStep == pc = "loop" /\ Len(results') = Len(results) + 1

LastItem(rs) == rs[Len(rs)]

\* the iteration of this step ended without an exception
ItemReturned == Len(stats'.errors) = Len(stats.errors)

\* positions of results whose item number has / has not an active product
MatchedAt(rs)   == {j \in 1..Len(rs) : HasActiveProduct(rs[j].gw_item_number)}

UnmatchedKeys(rs) ==
  LET keys == [j \in 1..Len(rs) |-> rs[j].gw_item_number]
  IN  SelectSeq(keys, LAMBDA k : ~HasActiveProduct(k))

(***************************************************************************)
(* C1  Change detection: a fault-free call that ingests A and then B for   *)
(* the same active item number, B differing from A in price or status,     *)
(* returns with the listing's history ending in a row for A's state        *)
(* followed by a row for B's state, price_changes counting them, and the   *)
(* listing carrying B's price and status.                                  *)
(***************************************************************************)
C1_ChangeDetection ==
  ( /\ pc = "returned"
    /\ injected = {}
    /\ Len(results) = 2
    /\ HasActiveProduct(results[1].gw_item_number)
    /\ results[1].gw_item_number = results[2].gw_item_number
    /\ Differ(results[1], results[2]) )
  => \E l \in ListingOf(committed_listings,
                        ProductIdOf(results[2].gw_item_number), store_id) :
       LET h == HistoryOf(committed_history, l.id)
       IN  /\ Reflects(l, results[2])
           /\ Len(h) >= 2
           /\ RecordsState(h[Len(h) - 1], results[1])
           /\ RecordsState(h[Len(h)], results[2])
           /\ stats.price_changes >= 1

(***************************************************************************)
(* C2  Idempotence: when an item is ingested whose price and status the    *)
(* listing of its (product, store) pair already carries, the pair still    *)
(* has exactly that one listing row, with price, discount and status       *)
(* unchanged, and no price_history row is written (neither in the          *)
(* connection's view nor durably) and price_changes does not move.         *)
(***************************************************************************)
C2_Idempotent ==
  [][ ( /\ ItemStep
        /\ HasActiveProduct(LastItem(results').gw_item_number) )
      => LET r   == LastItem(results')
             pid == ProductIdOf(r.gw_item_number)
         IN  \A l \in ListingOf(listings, pid, store_id) :
               Reflects(l, r) =>
                 /\ ListingOf(listings', pid, store_id) = {l}
                 /\ price_history' = price_history
                 /\ committed_history' = committed_history
                 /\ stats'.price_changes = stats.price_changes ]_vars

\* the same observation was ingested twice in a row, without a fault
C2_Witness ==
  /\ Len(results) = 2
  /\ results[1] = results[2]
  /\ HasActiveProduct(results[1].gw_item_number)
  /\ injected = {}
  /\ stats.upserted = 2
  /\ Cardinality(ListingOf(committed_listings,
                           ProductIdOf(results[1].gw_item_number), store_id)) = 1

(***************************************************************************)
(* C3  First sighting writes history: an iteration that returns normally   *)
(* on a matched item whose (product, store) pair had no listing creates    *)
(* the listing, appends exactly one price_history row carrying the item's  *)
(* price, discount and purchasable flag, and adds one to price_changes.    *)
(***************************************************************************)
C3_FirstSightingWritesHistory ==
  [][ ( /\ ItemStep
        /\ ItemReturned
        /\ HasActiveProduct(LastItem(results').gw_item_number)
        /\ ListingOf(listings, ProductIdOf(LastItem(results').gw_item_number),
                     store_id) = {} )
      => LET r == LastItem(results')
             created == ListingOf(listings', ProductIdOf(r.gw_item_number), store_id)
         IN  /\ Cardinality(created) = 1
             /\ Len(price_history') = Len(price_history) + 1
             /\ \A l \in created :
                  LastItem(price_history') =
                    HistoryRow(l.id, r.current_price, l.discount_pct,
                               InStock(r.stock_status))
             /\ stats'.price_changes = stats.price_changes + 1 ]_vars

(***************************************************************************)
(* C4  Partial persistence failure isolation: when a call returns in which *)
(* a statement was made to fail for exactly one item k, stats.errors has   *)
(* exactly one entry, it names k's item number, and every other item with  *)
(* an active product was upserted and has its durable listing.             *)
(***************************************************************************)
C4_FailureIsolation ==
  (pc = "returned" /\ Cardinality(injected) = 1)
  => LET k      == CHOOSE i \in injected : TRUE
         others == MatchedAt(results) \ {k}
     IN  /\ Len(stats.errors) = 1
         /\ stats.errors[1].key = results[k].gw_item_number
         /\ stats.upserted >= Cardinality(others)
         /\ \A j \in others :
              ListingOf(committed_listings,
                        ProductIdOf(results[j].gw_item_number), store_id) # {}

(***************************************************************************)
(* C5  Unmatched observations never abort the run: a call on an active     *)
(* store never ends by raising; when it returns and no statement failed,   *)
(* matched is the number of items with an active product, unmatched lists  *)
(* exactly the other item numbers, and errors is empty; and an iteration   *)
(* on an item without an active product that reaches the lookup writes no  *)
(* listing and no price_history row and adds nothing to errors.            *)
(***************************************************************************)
C5_AtReturn ==
  /\ (pc = "raised" => ~\E s \in Stores : s.slug = store_slug /\ s.is_active)
  /\ (pc = "returned" /\ injected = {}) =>
       /\ stats.matched = Cardinality(MatchedAt(results))
       /\ stats.unmatched = UnmatchedKeys(results)
       /\ stats.errors = <<>>

C5_UnmatchedStep ==
  ( /\ ItemStep
    /\ ~HasActiveProduct(LastItem(results').gw_item_number)
    /\ tx_status # "INERROR"
    /\ Len(results') \notin injected' )
  => /\ stats'.unmatched = Append(stats.unmatched, LastItem(results').gw_item_number)
     /\ stats'.errors = stats.errors
     /\ stats'.matched = stats.matched
     /\ UNCHANGED <<listings, price_history, committed_listings, committed_history>>

C5_UnmatchedNeverAborts == [](C5_AtReturn) /\ [][C5_UnmatchedStep]_vars

\* a fault-free call returned after meeting items with and without an active
\* product, the unmatched ones both a deactivated and an unknown item number
C5_Witness ==
  /\ pc = "returned"
  /\ injected = {}
  /\ Len(results) = 3
  /\ stats.matched = 1
  /\ stats.unmatched \in {<<"01-21", "99-99">>, <<"99-99", "01-21">>}
  /\ stats.errors = <<>>

(***************************************************************************)
(* Vocabulary of the properties of the orchestrator                        *)
(***************************************************************************)
\* main is past asyncio.gather
Gathered == main_pc \in {"webhook", "totals", "done"}

\* a figure of a scraper's stats, 0 for a scraper that failed
StatOf(i, field) == IF task[i] = "returned" THEN all_stats[i][field] ELSE 0

InChangedStores(slug) ==
  \E n \in DOMAIN changed_stores : changed_stores[n] = slug

(***************************************************************************)
(* C6  Orchestrator isolation: an exception in one run_scraper task never  *)
(* reaches main and changes no other task; main aggregates only after      *)
(* every task has finished; the failed count is the number of tasks that   *)
(* failed, the changed stores are exactly the finished scrapers whose       *)
(* stats show an upsert or a history row, and the totals are the sums over  *)
(* the scrapers that returned stats.                                        *)
(***************************************************************************)
C6_AtMain ==
  /\ main_pc # "crashed"
  /\ Gathered =>
       /\ \A i \in ScraperIds :
            \/ task[i] = "returned" /\ all_stats[i].kind = "stats"
            \/ task[i] = "failed" /\ all_stats[i].kind = "None"
       /\ failed = Cardinality({i \in ScraperIds : task[i] = "failed"})
       /\ \A i \in ScraperIds :
            InChangedStores(Scrapers[i].store_slug)
              <=> (StatOf(i, "upserted") > 0 \/ StatOf(i, "price_changes") > 0)
  /\ main_pc = "done" =>
       /\ total_matched = StatOf(1, "matched") + StatOf(2, "matched")
                          + StatOf(3, "matched") + StatOf(4, "matched")
       /\ total_changes = StatOf(1, "price_changes") + StatOf(2, "price_changes")
                          + StatOf(3, "price_changes") + StatOf(4, "price_changes")

C6_FailureStep ==
  \A i \in ScraperIds :
    (task[i] # "failed" /\ task'[i] = "failed")
    => /\ main_pc' = main_pc
       /\ \A j \in ScraperIds \ {i} :
            task'[j] = task[j] /\ all_stats'[j] = all_stats[j]

C6_OrchestratorIsolation == [](C6_AtMain) /\ [][C6_FailureStep]_vars

\* main finished a run in which exactly one scraper failed, at each of the
\* other three returned stats, and they show in the totals and the webhook
C6_Witness ==
  /\ main_pc = "done"
  /\ task[2] = "failed"
  /\ \A i \in ScraperIds \ {2} : task[i] = "returned"
  /\ failed = 1
  /\ total_matched = 5
  /\ total_changes = 2
  /\ changed_stores = <<"miniature-market", "gamenerdz">>

(***************************************************************************)
(* C7  Exit status: main returns 0 exactly when no scraper failed outright *)
(* and 1 otherwise, whatever the stats of the finished scrapers hold and   *)
(* however the webhook went.                                               *)
(***************************************************************************)
C7_ExitStatus ==
  IF main_pc = "done"
    THEN exit_code = (IF \E i \in ScraperIds : task[i] = "failed" THEN 1 ELSE 0)
    ELSE exit_code = -1

\* exit code 0 although scrapers reported unmatched items and item errors
\* and the webhook failed
C7_Witness ==
  /\ main_pc = "done"
  /\ exit_code = 0
  /\ webhook = "failed"
  /\ \E i \in ScraperIds : all_stats[i].unmatched > 0
  /\ \E i \in ScraperIds : all_stats[i].errors > 0

(***************************************************************************)
(* C8  Concurrency bound: during scrape() the requests in flight (issued   *)
(* by BaseStore.get and not yet returned or failed, tenacity's sleeps      *)
(* between attempts included) never exceed 8 for Miniature Market, 4 for   *)
(* Discount Games Inc and 6 for GameNerdz.                                 *)
(***************************************************************************)
C8_ConcurrencyBound ==
  LET in_flight == InFlight(coll) + InFlight(fetch)
  IN  /\ scraper = "miniature-market"   => in_flight <= 8
      /\ scraper = "discount-games-inc" => in_flight <= 4
      /\ scraper = "gamenerdz"          => in_flight <= 6

\* Miniature Market's pool is full, one of its requests in a retry sleep,
\* and a further task is kept waiting
C8_Witness ==
  /\ scraper = "miniature-market"
  /\ InFlight(fetch) = 8
  /\ fetch["wait1"] > 0
  /\ fetch["queued"] > 0

(***************************************************************************)
(* Vocabulary of the properties of BaseStore.get                           *)
(***************************************************************************)
\* timeouts and network errors
TransientErrors == {"ConnectTimeout", "ReadTimeout", "ConnectError", "ReadError"}

GetEnded == get_pc \in {"returned", "raised"}

(***************************************************************************)
(* C9  Bounded retry: a call makes at most 3 attempts; every attempt that  *)
(* was followed by another one failed with a timeout or network error; a   *)
(* call that returns returns the response of its last attempt; after three *)
(* transient failures the third attempt's exception is the one raised; and *)
(* each sleep before a retry lasts between 4 and 30.                       *)
(***************************************************************************)
C9_BoundedRetry ==
  /\ Len(outcomes) <= 3
  /\ attempt_number <= 3
  /\ \A n \in 1..(Len(outcomes) - 1) : outcomes[n] \in TransientErrors
  /\ get_pc = "returned" =>
       outcomes[Len(outcomes)] = "ok" /\ returned_attempt = Len(outcomes)
  /\ (Len(outcomes) = 3 /\ outcomes[3] \in TransientErrors) =>
       get_pc = "raised" /\ raised_exc = outcomes[3]
  /\ GetEnded => Len(waits) = Len(outcomes) - 1
  /\ \A n \in DOMAIN waits : 4 <= waits[n] /\ waits[n] <= 30

\* three attempts, each with another transient error, the last one raised
C9_Witness ==
  /\ get_pc = "raised"
  /\ outcomes = <<"ConnectTimeout", "ReadError", "ReadTimeout">>
  /\ raised_exc = "ReadTimeout"
  /\ Len(waits) = 2

(***************************************************************************)
(* C10  No retry on application errors: when the first attempt ends with a *)
(* non-2xx response, or with any exception that is neither a timeout nor a *)
(* network error (such as the RuntimeError of a scraper used outside       *)
(* "async with"), the call has made exactly one attempt, has not slept,    *)
(* and raises that exception.                                              *)
(***************************************************************************)
C10_NoRetryOnApplicationErrors ==
  /\ (Len(outcomes) >= 1 /\ outcomes[1] \notin TransientErrors \cup {"ok"}) =>
       /\ get_pc = "raised"
       /\ Len(outcomes) = 1
       /\ waits = <<>>
       /\ raised_exc = outcomes[1]
  /\ (~client_open /\ Len(outcomes) >= 1) => outcomes[1] = "RuntimeError"

\* a non-2xx response on the first attempt was raised at once
C10_Witness ==
  /\ get_pc = "raised"
  /\ outcomes = <<"HTTPStatusError">>
  /\ raised_exc = "HTTPStatusError"
  /\ waits = <<>>

(***************************************************************************)
(* Vocabulary of the properties of a store that cannot be resolved         *)
(***************************************************************************)
HasActiveStore(slug) == \E s \in Stores : s.slug = slug /\ s.is_active

\* position among SCRAPERS of the scraper of a store
ScraperOf(slug) == CHOOSE i \in ScraperIds : Scrapers[i].store_slug = slug

\* what the four run_scraper tasks can hand to main when the task of
\* scraper i ended with exception exc
AllStatsWhenRaised(i, exc) ==
  {v \in [ScraperIds -> StreamUpsertStats \cup {NoneResult}] :
     v[i] = RunScraperExcept(exc)}

SlugsOf(seq) == {seq[n] : n \in DOMAIN seq}

(***************************************************************************)
(* C11  Store-not-found is fatal for that pipeline only: upsert_results on *)
(* a slug without an active store row raises before it reads any           *)
(* observation, writes no listings or price_history row and returns no     *)
(* stats; main then counts that store as failed, returns 1 and leaves the  *)
(* store out of the changed stores, and decides every other store by its   *)
(* own stats.  A call that enters its loop has an active store, and its    *)
(* store_id stays the one resolved at the start of the call.               *)
(***************************************************************************)
C11_AtCall ==
  /\ pc \in {"loop", "returned"} =>
       /\ HasActiveStore(store_slug)
       /\ \E s \in Stores : s.slug = store_slug /\ s.id = store_id
  /\ pc = "raised" =>
       /\ ~HasActiveStore(store_slug)
       /\ results = <<>>
       /\ stats.matched = 0 /\ stats.upserted = 0 /\ stats.price_changes = 0
       /\ stats.unmatched = <<>> /\ stats.errors = <<>>
       /\ LET i == ScraperOf(store_slug)
          IN  \A v \in AllStatsWhenRaised(i, "ValueError") :
                /\ CountFailed(v) >= 1
                /\ ExitCode(CountFailed(v)) = 1
                /\ store_slug \notin SlugsOf(ChangedStores(v, 1))
                /\ \A j \in ScraperIds \ {i} :
                     Scrapers[j].store_slug \in SlugsOf(ChangedStores(v, 1))
                       <=> /\ v[j] # NoneResult
                           /\ (v[j].upserted > 0 \/ v[j].price_changes > 0)

C11_CallStep ==
  /\ pc' = "raised" =>
       /\ listings' = listings /\ committed_listings' = committed_listings
       /\ price_history' = price_history
       /\ committed_history' = committed_history
  /\ (pc = "loop" /\ pc' \in {"loop", "returned"}) => store_id' = store_id

C12_ChangedStores ==
  IF Gathered
    THEN /\ \A i \in ScraperIds :
              InChangedStores(Scrapers[i].store_slug)
                <=> /\ task[i] = "returned"
                    /\ all_stats[i] # NoneResult
                    /\ (all_stats[i].upserted > 0 \/ all_stats[i].price_changes > 0)
         /\ \A n \in DOMAIN changed_stores :
              \E i \in ScraperIds : changed_stores[n] = Scrapers[i].store_slug
         /\ \A m, n \in DOMAIN changed_stores :
              changed_stores[m] = changed_stores[n] => m = n
    ELSE changed_stores = <<>>

\* the webhook was posted after one pipeline failed, one upserted nothing,
\* one upserted without writing history and one wrote history
C12_Witness ==
  /\ main_pc = "done"
  /\ webhook = "ok"
  /\ task[1] = "failed"
  /\ task[2] = "returned" /\ all_stats[2].upserted = 0 /\ all_stats[2].unmatched > 0
  /\ task[3] = "returned" /\ all_stats[3].upserted > 0 /\ all_stats[3].price_changes = 0
  /\ task[4] = "returned" /\ all_stats[4].price_changes > 0
  /\ changed_stores = <<"frontline-gaming", "gamenerdz">>

(***************************************************************************)
(* C13  Notification is best-effort: post_revalidation_webhook is called   *)
(* with the changed stores after the gather, and whether its POST          *)
(* succeeds, fails or is skipped, the call returns normally: main goes on  *)
(* to its totals, returns the exit code and totals that the scraper        *)
(* results alone determine, and the call changes neither those results nor *)
(* any listings or price_history row.                                      *)
(***************************************************************************)
C13_AtMain ==
  /\ webhook \in {"ok", "failed"} => secret_set
  /\ webhook # "not_called" => main_pc \in {"totals", "done"}
  /\ main_pc = "done" =>
       /\ webhook # "not_called"
       /\ exit_code = (IF \E i \in ScraperIds : all_stats[i] = NoneResult
                         THEN 1 ELSE 0)
       /\ total_matched = StatOf(1, "matched") + StatOf(2, "matched")
                          + StatOf(3, "matched") + StatOf(4, "matched")
       /\ total_changes = StatOf(1, "price_changes") + StatOf(2, "price_changes")
                          + StatOf(3, "price_changes") + StatOf(4, "price_changes")

C13_WebhookStep ==
  webhook' # webhook =>
    /\ main_pc = "webhook" /\ main_pc' = "totals"
    /\ UNCHANGED <<task, all_stats, changed_stores, failed>>
    /\ UNCHANGED <<listings, price_history, committed_listings, committed_history>>

C13_NotificationBestEffort == [](C13_AtMain) /\ [][C13_WebhookStep]_vars

\* the POST failed in a run with changes to report and a failed scraper, and
\* main still returned its totals and exit code 1
C13_Witness ==
  /\ main_pc = "done"
  /\ webhook = "failed"
  /\ changed_stores # <<>>
  /\ failed = 1
  /\ exit_code = 1
  /\ total_matched > 0
  /\ total_changes > 0

(***************************************************************************)
(* Vocabulary of the properties of durability                              *)
(***************************************************************************)
\* the last observation of rs for an item number
LastFor(rs, key) ==
  rs[CHOOSE j \in 1..Len(rs) :
       /\ rs[j].gw_item_number = key
       /\ \A k \in (j + 1)..Len(rs) : rs[k].gw_item_number # key]

\* the connection holds nothing that is not durable
NothingPending ==
  listings = committed_listings /\ price_history = committed_history

\* this step hands the next batch to the ingestion loop
BatchRequested == pc # "loop" /\ pc' = "loop"

\* every durable row of before is still a durable row after, under its id
\* and for its (product, store) pair
DurableRowsKept(before, after) ==
  \A l \in before :
    \E m \in after :
      m.id = l.id /\ m.product_id = l.product_id /\ m.store_id = l.store_id

(***************************************************************************)
(* C14  Streaming batches: with every batch a pipeline yields ingested by  *)
(* one pass of the upsert_results loop (a list-returning pipeline being a  *)
(* single batch), the next batch is requested only when every observation  *)
(* of the current one has been processed and everything written for them   *)
(* is durable; a batch processed without a failing statement leaves, for   *)
(* every matched item number, a durable listing carrying its last          *)
(* observation; and nothing that happens during a later batch removes a    *)
(* durable listing or history row of an earlier one.                       *)
(***************************************************************************)
C14_AtBatchEnd ==
  (pc = "returned" /\ injected = {}) =>
    /\ NothingPending
    /\ \A j \in MatchedAt(results) :
         \E l \in ListingOf(committed_listings,
                            ProductIdOf(results[j].gw_item_number), store_id) :
           Reflects(l, LastFor(results, results[j].gw_item_number))

C14_BatchStep ==
  /\ BatchRequested =>
       /\ pc \in {"idle", "returned"}
       /\ Len(results) = stats.total_scraped
       /\ tx_status = "IDLE"
       /\ NothingPending
  /\ DurableRowsKept(committed_listings, committed_listings')
  /\ Len(committed_history') >= Len(committed_history)
  /\ SubSeq(committed_history', 1, Len(committed_history)) = committed_history

C15_BetweenItems ==
  /\ (pc = "loop" /\ tx_status # "INERROR") => NothingPending
  /\ \A n \in DOMAIN committed_history :
       \E l \in committed_listings : l.id = committed_history[n].listing_id

C15_ItemStep ==
  ItemStep =>
    IF ItemReturned
      THEN /\ listings' = committed_listings'
           /\ price_history' = committed_history'
           /\ HasActiveProduct(LastItem(results').gw_item_number) =>
                \E l \in ListingOf(committed_listings',
                                   ProductIdOf(LastItem(results').gw_item_number),
                                   store_id) :
                  Reflects(l, LastItem(results'))
      ELSE /\ committed_listings' = committed_listings
           /\ committed_history' = committed_history

C15_PerItemTransaction == [](C15_BetweenItems) /\ [][C15_ItemStep]_vars

\* in a call of three observations the first is durable, the second failed
\* and left no row, and the third has not been read
C15_Witness ==
  /\ pc = "loop"
  /\ stats.total_scraped = 3
  /\ Len(results) = 2
  /\ injected = {2}
  /\ results[1].gw_item_number = "48-75"
  /\ results[2].gw_item_number = "43-06"
  /\ \E l \in ListingOf(committed_listings, "p1", store_id) : Reflects(l, results[1])
  /\ ListingOf(committed_listings, "p2", store_id) = {}

(***************************************************************************)
(* C16  Stock normalization is total and conservative: for every string,   *)
(* normalize_stock_status returns one of the five StockStatus values; a    *)
(* string that is a key of the table once its surrounding whitespace is    *)
(* removed and its letters are lower-cased returns the table's value for   *)
(* that key; every other string returns out_of_stock, and so is never      *)
(* taken for purchasable.                                                  *)
(***************************************************************************)
C16_NormalizationTotal ==
  normalized # "pending" =>
    /\ normalized \in {"in_stock", "out_of_stock", "backorder", "pre_order", "limited"}
    /\ \A e \in StockNormalization : e.key = raw_key => normalized = e.status
    /\ (\A e \in StockNormalization : e.key # raw_key) =>
         /\ normalized = "out_of_stock"
         /\ normalized \notin {"in_stock", "limited"}

\* " SOLD OUT!" with whitespace around it, which is no key of the table, was
\* normalized to out_of_stock
C16_Witness ==
  /\ raw_key = <<"s", "o", "l", "d", " ", "o", "u", "t", "!">>
  /\ raw_input = <<"\t", " ", "S", "O", "L", "D", " ", "O", "U", "T", "!", " ", "\n">>
  /\ normalized = "out_of_stock"

(***************************************************************************)
(* Vocabulary of the properties of PriceResult                             *)
(***************************************************************************)
ValidationErrors ==
  {"ValueError: Negative price", "ValueError: gw_item_number cannot be empty"}

\* a string without any character that is not whitespace
Blank(s) == \A n \in DOMAIN s : s[n] \in {" ", "\t", "\n"}

(***************************************************************************)
(* C17  Observation validation at construction: a PriceResult with         *)
(* current_price < 0, or with a gw_item_number that is empty or holds only *)
(* whitespace, fails with a ValueError; every construction with            *)
(* current_price >= 0 (0 included) and a gw_item_number holding a          *)
(* character that is not whitespace succeeds; so every PriceResult that    *)
(* exists has a price of at least 0 and an item number that is not blank.  *)
(***************************************************************************)
C17_ValidationAtConstruction ==
  pr_outcome # "pending" =>
    /\ (pr_current_price < 0 \/ Blank(pr_gw_item_number))
         => pr_outcome \in ValidationErrors
    /\ (pr_current_price >= 0 /\ ~Blank(pr_gw_item_number))
         => pr_outcome = "constructed"

\* a construction with price 0 and an item number of a tab and a space
\* raised the ValueError for an empty item number
C17_Witness ==
  /\ pr_gw_item_number = <<"\t", " ">>
  /\ pr_current_price = 0
  /\ pr_outcome = "ValueError: gw_item_number cannot be empty"

\* C17 as the claim words it: the construction fails when the price is
\* negative or the item number is the empty string, and succeeds for every
\* price >= 0 with an item number that is not the empty string
C17_AsStated ==
  pr_outcome # "pending" =>
    /\ (pr_current_price < 0 \/ pr_gw_item_number = <<>>)
         => pr_outcome \in ValidationErrors
    /\ (pr_current_price >= 0 /\ pr_gw_item_number # <<>>)
         => pr_outcome = "constructed"

(***************************************************************************)
(* Vocabulary of the properties of the discount                            *)
(***************************************************************************)
\* reference prices and scraped prices, in cents, the computation is
\* checked for: exact quotients, quotients to round up and down, a tie
ReferencePrices == {-100, 0, 1, 3, 7, 3300, 5000, 8000}
ScrapedPrices   == {0, 1, 2, 4250, 4999, 5000, 7998, 9000}

Abs(x) == IF x < 0 THEN -x ELSE x

\* d hundredths of a percent is (rrp - price) / rrp * 100 rounded to two
\* decimal places: no other multiple of 0.01 is nearer to the quotient
IsRoundedDiscount(d, rrp, price) ==
  2 * Abs(d * rrp - (rrp - price) * 10000) <= rrp

\* gw_rrp_usd of the active product with an item number
ReferencePriceOf(key) ==
  (CHOOSE p \in Products : p.gw_item_number = key /\ p.is_active).gw_rrp_usd

IsDiscountFor(d, rrp, price) ==
  IF rrp > 0 THEN IsRoundedDiscount(d, rrp, price) ELSE d = 0

(***************************************************************************)
(* C18  Discount computation: the discount _upsert_one computes is         *)
(* (rrp - price) / rrp * 100 rounded to two decimal places when rrp > 0    *)
(* and 0 when rrp <= 0 (15.00 for 50.00 and 42.50); and whenever a matched *)
(* observation is ingested, the listing of its pair carries the discount   *)
(* of the product's gw_rrp_usd and the observation's price, whatever the   *)
(* listing carried before, as does every history row written for it.       *)
(***************************************************************************)
C18_Computed ==
  pc = "idle" =>
    /\ \A rrp \in ReferencePrices, price \in ScrapedPrices :
         IsDiscountFor(DiscountPct(rrp, price), rrp, price)
    /\ DiscountPct(5000, 4250) = 1500

C18_StoredStep ==
  ( /\ ItemStep
    /\ ItemReturned
    /\ HasActiveProduct(LastItem(results').gw_item_number) )
  => LET r   == LastItem(results')
         rrp == ReferencePriceOf(r.gw_item_number)
         pid == ProductIdOf(r.gw_item_number)
     IN  /\ \E l \in ListingOf(listings', pid, store_id) :
              IsDiscountFor(l.discount_pct, rrp, r.current_price)
         /\ \A l \in ListingOf(listings', pid, store_id) :
              IsDiscountFor(l.discount_pct, rrp, r.current_price)
         /\ \A n \in (Len(price_history) + 1)..Len(price_history') :
              IsDiscountFor(price_history'[n].discount_pct, rrp, r.current_price)

C18_DiscountComputation == [](C18_Computed) /\ [][C18_StoredStep]_vars

\* the product with a retail price of 50.00 was ingested at 42.50 and then
\* at 50.00: its listing carries a discount of 0, not the 15.00 stored before
C18_Witness ==
  /\ Len(results) = 2
  /\ injected = {}
  /\ results[1].gw_item_number = "48-75" /\ results[1].current_price = 4250
  /\ results[2].gw_item_number = "48-75" /\ results[2].current_price = 5000
  /\ \E l \in ListingOf(committed_listings, "p1", store_id) : l.discount_pct = 0

(***************************************************************************)
(* Vocabulary of the properties of the listings table                      *)
(***************************************************************************)
SamePair(l, m) == l.product_id = m.product_id /\ l.store_id = m.store_id

OneRowPerPair(L) == \A l, m \in L : SamePair(l, m) => l = m

\* a listing row carries what observation r says of the offer
Carries(l, r) ==
  /\ l.current_price = r.current_price
  /\ l.stock_status = r.stock_status
  /\ l.store_product_url = r.store_product_url
  /\ l.store_sku = r.store_sku
  /\ l.affiliate_url = r.affiliate_url

(***************************************************************************)
(* C19  Listing uniqueness: the listings table never holds two rows for    *)
(* one (product, store) pair, however often an item number is repeated in  *)
(* a batch or over batches; when _upsert_one returns for a matched         *)
(* observation, the one durable row of its pair carries the observation's  *)
(* price, stock status, URL, SKU and affiliate URL and the rows of all     *)
(* other pairs, those of other stores included, are as before; no other    *)
(* step changes a durable listing.  So a row always carries the last       *)
(* observation processed for its pair.                                     *)
(***************************************************************************)
C19_OneRowPerPair ==
  OneRowPerPair(listings) /\ OneRowPerPair(committed_listings)

C19_ListingStep ==
  IF ItemStep /\ ItemReturned /\ HasActiveProduct(LastItem(results').gw_item_number)
    THEN LET r   == LastItem(results')
             pid == ProductIdOf(r.gw_item_number)
         IN  \E l \in committed_listings' :
               /\ l.product_id = pid /\ l.store_id = store_id
               /\ Carries(l, r)
               /\ committed_listings' \ {l}
                    = {m \in committed_listings :
                         ~(m.product_id = pid /\ m.store_id = store_id)}
    ELSE committed_listings' = committed_listings

C19_ListingUniqueness == [](C19_OneRowPerPair) /\ [][C19_ListingStep]_vars

\* one item number was ingested three times in a call, each time with
\* another price or status: its pair has one row, carrying the third
\* observation, next to the row another store has for the same product
C19_Witness ==
  /\ Len(results) = 3
  /\ injected = {}
  /\ \A j \in 1..3 : results[j].gw_item_number = "48-75"
  /\ Differ(results[1], results[2])
  /\ Differ(results[2], results[3])
  /\ \E l \in committed_listings :
       /\ ListingOf(committed_listings, "p1", store_id) = {l}
       /\ Carries(l, results[3])
  /\ SeededListings \subseteq committed_listings
  /\ Cardinality(committed_listings) = 2

(***************************************************************************)
(* Vocabulary of the properties of append-only history                     *)
(***************************************************************************)
\* every row of h is a row of g, at its place and with its values
IsPrefix(h, g) == Len(h) <= Len(g) /\ SubSeq(g, 1, Len(h)) = h

(***************************************************************************)
(* C20  History is append-only and listings are never deleted: no step of  *)
(* the ingestion removes a durable listings row or gives it another id or  *)
(* pair, and none removes or changes a durable price_history row; on the   *)
(* connection, too, rows only come and history rows only get appended,     *)
(* unless the step abandons an uncommitted transaction and the connection  *)
(* is back at the durable rows.                                            *)
(***************************************************************************)
C20_Step ==
  /\ DurableRowsKept(committed_listings, committed_listings')
  /\ IsPrefix(committed_history, committed_history')
  /\ \/ DurableRowsKept(listings, listings') /\ IsPrefix(price_history, price_history')
     \/ listings' = committed_listings' /\ price_history' = committed_history'

ScrapeAborted == phase = "raised"

\* C21: A single fetch failure never aborts a store pipeline: whichever
\* request of a scraper fails after its retries, a product page or a
\* sitemap / listing page, the failure is caught inside the scraper and
\* scrape() still returns; no scrape() is ever left by the exception of a
\* request.
C21_FetchFailureNeverAborts == ~ScrapeAborted

\* a listings row without its generated id
WithoutId(l) == [f \in DOMAIN l \ {"id"} |-> l[f]]

\* the listings rows of one store, ids left out
RowsOfStore(L, sid) == {WithoutId(l) : l \in {x \in L : x.store_id = sid}}

\* the price_history rows of one store's listings, oldest first, as
\* <<price, discount_pct, in_stock>>
HistoryOfStore(H, L, sid) ==
  LET own == SelectSeq(H, LAMBDA h :
                            \E l \in L : l.id = h.listing_id /\ l.store_id = sid)
  IN  [i \in 1..Len(own) |-> <<own[i].price, own[i].discount_pct, own[i].in_stock>>]

\* what the call of store c leaves and returns when it runs alone on the
\* table both calls started from
Alone(c) ==
  UpsertResultsCall(SeededListings, <<>>, SlugOfStore(c), conn[c].items, {})

\* connection c took the step
StepOf(c) == conn'[c] # conn[c]

\* the call of c wrote and read rows of its own store only
C22_OwnRowsOnly ==
  \A c \in ConcurrentStores :
    /\ \A l \in conn[c].written : l.store_id = c
    /\ \A l \in conn[c].existing : l.store_id = c
    /\ \A i \in 1..Len(conn[c].history) :
         \E l \in View(c) : l.id = conn[c].history[i].listing_id /\ l.store_id = c

\* a statement of c leaves the durable rows of every other store as they are
C22_Step ==
  \A c \in ConcurrentStores :
    StepOf(c) =>
      \A d \in ConcurrentStores \ {c} :
        /\ {l \in db_listings' : l.store_id = d} = {l \in db_listings : l.store_id = d}
        /\ HistoryOfStore(db_history', db_listings', d)
             = HistoryOfStore(db_history, db_listings, d)

\* both calls returned: each store's durable rows and stats are those of its
\* call running alone
C22_AtReturn ==
  (\A c \in ConcurrentStores : conn[c].at = "returned") =>
    \A c \in ConcurrentStores :
      /\ RowsOfStore(db_listings, c) = RowsOfStore(Alone(c).listings, c)
      /\ HistoryOfStore(db_history, db_listings, c)
           = HistoryOfStore(Alone(c).price_history, Alone(c).listings, c)
      /\ conn[c].stats = Alone(c).stats

\* C22: Cross-store writer isolation: when the ingestions of two stores run
\* concurrently over overlapping item numbers, then under every interleaving
\* of their statements neither call creates, modifies or reads as previous
\* state a listings or price_history row of the other store, and when both
\* have returned the listings, the history and the stats of each store are
\* those of that store's call running alone.
C22_CrossStoreIsolation ==
  [](C22_OwnRowsOnly /\ C22_AtReturn) /\ [][C22_Step]_vars

\* both calls hold an uncommitted write for the same product at once, one
\* on a row that was durable before, one on a new row
C22_Witness ==
  /\ \A c \in ConcurrentStores :
       /\ conn[c].at = "commit"
       /\ conn[c].written # {}
       /\ conn[c].product.id = "p1"
  /\ \E l \in conn["s2"].written : l.id = 1 /\ l.current_price = 4250
  /\ \E l \in conn["s1"].written : l.id # 1 /\ l.current_price = 5000

\* how many price_history rows each (product, store) pair's listing has
HistoryCounts(out) ==
  {<<l.product_id, l.store_id,
     Len(SelectSeq(out.price_history, LAMBDA h : h.listing_id = l.id))>> :
     l \in out.listings}

Range(s) == {s[i] : i \in DOMAIN s}

\* both arrival orders left the same listings (generated ids aside) and the
\* same number of price_history rows per listing, and returned the same
\* counts and the same set of unmatched item numbers
SameOutcome(a, b) ==
  /\ {WithoutId(l) : l \in a.listings} = {WithoutId(l) : l \in b.listings}
  /\ HistoryCounts(a) = HistoryCounts(b)
  /\ a.stats.matched = b.stats.matched
  /\ a.stats.upserted = b.stats.upserted
  /\ a.stats.price_changes = b.stats.price_changes
  /\ Range(a.stats.unmatched) = Range(b.stats.unmatched)

\* C23: Arrival-order independence: for a batch whose items have pairwise
\* distinct item numbers, every order of arrival leaves the same listings,
\* the same number of price_history rows for every listing, and returns the
\* same matched, upserted and price_changes counts and the same set of
\* unmatched item numbers.
C23_ArrivalOrderIndependence ==
  ingested # <<>> => SameOutcome(ingested[1], ingested[2])

\* the same, for the batches none of whose items PostgreSQL rejects
C23_WhenNothingIsRejected ==
  (ingested # <<>> /\ arrival.rejected = {})
    => SameOutcome(ingested[1], ingested[2])

\* fetch_one tasks that hold a slot of the product-page semaphore
HeldSlots == fetch["sleep"] + InFlight(fetch)

\* the fetch pool of scrape() is working on a batch of product URLs
Fetching == phase = "products"

\* C24: No indefinite blocking of the fetch pool: given that every attempt
\* of a request ends (by its timeout at the latest), every slot that was
\* taken is given back, whether the request succeeded, timed out on every
\* attempt or was answered with an error; every task that waits for a slot
\* gets one; and scrape() gets through the product fetches of the batch.
C24_NoIndefiniteBlocking ==
  /\ (Fetching /\ HeldSlots > 0) ~> (HeldSlots = 0)
  /\ (Fetching /\ fetch["queued"] > 0) ~> (fetch["queued"] = 0)
  /\ Fetching ~> ~Fetching
  /\ [](Fetching => semaphore + HeldSlots = Concurrency(scraper))

\* every slot is taken, tasks are waiting for one, and one of the tasks
\* that hold a slot has had two attempts fail
C24_Witness ==
  /\ Fetching
  /\ semaphore = 0
  /\ fetch["queued"] > 0
  /\ fetch["wait2"] > 0

\* this step issues the first attempt of a product-page request / of a
\* Discount Games Inc category-page request
FetchIssued == Fetching /\ fetch'["req1"] > fetch["req1"]
CategoryPageIssued ==
  scraper = "discount-games-inc" /\ phase = "collect" /\ coll'["req1"] > coll["req1"]

\* C25: Politeness delay per slot: every request a scraper issues under a
\* concurrency limiter comes from a task that already held its slot and has
\* just finished the politeness sleep taken in it (acquire, sleep, request,
\* release); this goes for the product pages of every fetch pool and for
\* the category pages of Discount Games Inc.
C25_PolitenessDelayPerSlot ==
  [][ /\ FetchIssued =>
           (semaphore' = semaphore /\ fetch'["sleep"] < fetch["sleep"])
      /\ CategoryPageIssued =>
           (cat_sem' = cat_sem /\ coll'["sleep"] < coll["sleep"]) ]_vars

\* the same for the product pages alone
C25_ProductPages ==
  [][ FetchIssued =>
        (semaphore' = semaphore /\ fetch'["sleep"] < fetch["sleep"]) ]_vars

\* post_revalidation_webhook has been called
WebhookInvoked == webhook # "not_called"

AllFinished == \A i \in ScraperIds : Finished(task[i])

\* C26: Notification ordering: post_revalidation_webhook is called exactly
\* once per run, after every run_scraper task has finished and never while
\* one is still scraping or ingesting; it is called also when no store
\* changed and when every scraper failed; and once all tasks have finished,
\* main comes to its end and returns an exit code.
C26_NotificationOrdering ==
  /\ [][webhook' # webhook =>
          (webhook = "not_called" /\ AllFinished /\ task' = task)]_vars
  /\ [](WebhookInvoked => AllFinished)
  /\ [](main_pc = "done" => WebhookInvoked)
  /\ AllFinished ~> (main_pc = "done" /\ exit_code \in {0, 1})

\* main returned after every scraper failed: nothing changed, and the
\* webhook was still posted
C26_Witness ==
  /\ main_pc = "done"
  /\ failed = Len(Scrapers)
  /\ changed_stores = <<>>
  /\ webhook \in {"ok", "failed"}
  /\ exit_code = 1

\* the stock statuses in which an item can be bought
Purchasable == {"in_stock", "limited"}

\* the observation of the list that a price_history row of out was written
\* for: it is for the row's listing and carries the row's price
CausedBy(h, out, rs) ==
  {r \in Range(rs) :
     /\ HasActiveProduct(r.gw_item_number)
     /\ \E l \in ListingOf(out.listings, ProductIdOf(r.gw_item_number), "s1") :
          l.id = h.listing_id
     /\ r.current_price = h.price}

PurchasableFlag(out, rs) ==
  /\ \A l \in out.listings : l.in_stock <=> (l.stock_status \in Purchasable)
  /\ \A i \in DOMAIN out.price_history :
       LET h == out.price_history[i]
       IN  /\ CausedBy(h, out, rs) # {}
           /\ \A r \in CausedBy(h, out, rs) :
                h.in_stock <=> (r.stock_status \in Purchasable)

\* C27: Purchasable flag: every listing's in_stock is true exactly when its
\* stock_status is in_stock or limited, and every price_history row's
\* in_stock is the purchasable value of the observation it was written for.
C27_PurchasableFlag ==
  ingested # <<>> =>
    /\ PurchasableFlag(ingested[1], arrival.first)
    /\ PurchasableFlag(ingested[2], arrival.second)

\* a call found the store's listing in stock and left it as "limited",
\* still purchasable
C27_Witness ==
  /\ ingested # <<>>
  /\ Len(arrival.first) = 1
  /\ arrival.first[1].stock_status = "limited"
  /\ arrival.table = SeededListings \cup {OwnSeededListing}
  /\ \E l \in ingested[1].listings :
       l.store_id = "s1" /\ l.stock_status = "limited" /\ l.in_stock

\* the product lookup of some item of the running call raised
SomeLookupRaised ==
  \E i \in DOMAIN stats.errors : stats.errors[i].stmt = StmtLookup

\* C28: Stats accounting: at every point price_changes <= upserted <=
\* matched <= total_scraped; when the call has returned, total_scraped <=
\* len(unmatched) + upserted + len(errors), and matched + len(unmatched) =
\* total_scraped whenever no product lookup raised.
C28_StatsAccounting ==
  /\ stats.price_changes <= stats.upserted
  /\ stats.upserted <= stats.matched
  /\ stats.matched <= stats.total_scraped
  /\ pc = "returned" =>
       /\ stats.total_scraped
            <= Len(stats.unmatched) + stats.upserted + Len(stats.errors)
       /\ ~SomeLookupRaised =>
            stats.matched + Len(stats.unmatched) = stats.total_scraped

\* a call of three items returned: one unmatched, one upserted, and one whose
\* COMMIT failed, which counts as upserted and as an error
C28_Witness ==
  /\ pc = "returned"
  /\ stats.total_scraped = 3
  /\ Len(stats.unmatched) = 1
  /\ stats.upserted = 2
  /\ Len(stats.errors) = 1
  /\ stats.errors[1].stmt = StmtCommit

\* the items of the running call whose _upsert_one got past the product
\* lookup and raised later: their listing write was not committed
FailedAfterLookup ==
  {i \in DOMAIN stats.errors : stats.errors[i].stmt # StmtLookup}

\* the items of the running call whose listing write was committed: the
\* matched ones whose _upsert_one returned
DurableUpserts == stats.matched - Cardinality(FailedAfterLookup)

\* the call would make main list its store among the changed stores
ReportedChanged == stats.price_changes > 0 \/ stats.upserted > 0

\* C29: Stats reflect durable writes: when upsert_results has returned,
\* stats.upserted is the number of observations whose listing write was
\* committed, also when a statement or a COMMIT failed; so a call that left
\* the durable listings as it found them does not count as changed.
C29_StatsReflectDurableWrites ==
  pc = "returned" =>
    /\ stats.upserted = DurableUpserts
    /\ (committed_listings = SeededListings /\ committed_history = <<>>)
         => ~ReportedChanged

\* this step made something durable
DurableChange ==
  committed_listings' # committed_listings \/ committed_history' # committed_history

\* the durable rows differ only in the listing of (product_id, sid) and in
\* price_history rows appended for that listing
OnlyListingChanged(product_id, sid) ==
  /\ {l \in committed_listings' : ~(l.product_id = product_id /\ l.store_id = sid)}
       = {l \in committed_listings : ~(l.product_id = product_id /\ l.store_id = sid)}
  /\ IsPrefix(committed_history, committed_history')
  /\ \A n \in (Len(committed_history) + 1)..Len(committed_history') :
       \E l \in ListingOf(committed_listings', product_id, sid) :
         l.id = committed_history'[n].listing_id

\* whatever becomes durable is the write of the one observation whose
\* _upsert_one is returning, on a connection that held nothing uncommitted
C30_Step ==
  DurableChange =>
    /\ ItemStep
    /\ ItemReturned
    /\ NothingPending
    /\ HasActiveProduct(LastItem(results').gw_item_number)
    /\ OnlyListingChanged(ProductIdOf(LastItem(results').gw_item_number), store_id)

\* C30: No partial item becomes durable: when _upsert_one raises after its
\* listing upsert ran and before its commit, that write is never made
\* durable by the commit of a later observation on the connection (nor by
\* the end of the call); every commit that changes the durable rows carries
\* the writes of exactly one observation.
C30_NoPartialItemDurable == [][C30_Step]_vars

\* the read-back of the first observation failed after its upsert; the
\* write is still pending on the connection, a second observation has been
\* processed since, and nothing of it is durable
C30_Witness ==
  /\ pc = "loop"
  /\ Len(results) = 2
  /\ injected = {1}
  /\ stats.errors[1].stmt = StmtReadBack
  /\ stats.upserted = 1
  /\ listings # committed_listings
  /\ committed_listings = SeededListings
====
